---- MODULE Spec2Model ----
(***************************************************************************)
(* Model of the Code Call-Graph (CCG) subsystem of codebase_genius/BE:     *)
(*   unified_api.py  - query_relationships, traverse_graph, clear_cache    *)
(*   ccg_builder.py  - build_ccg_from_repo                                 *)
(*   post_process.py - atomic_write, process_repo (cleanup)                *)
(*                                                                         *)
(* A Python str is modelled as a sequence of one-character strings, so     *)
(* that lower(), endswith(), split() and the ordering used by sorted()     *)
(* are computed and not assumed.                                           *)
(***************************************************************************)
EXTENDS Integers, Sequences, FiniteSets, TLC

VARIABLES
    \* ---- query_relationships (unified_api.py) ----
    qpc,            \* position in query_relationships
    nodes,          \* ccg["nodes"]: sequence of node records
    edges,          \* ccg["edges"]: sequence of [from, to]
    function,       \* the query string
    direction,      \* "callers" | "callees" | "both"
    depth,          \* the depth bound
    node_ids,       \* node_map.keys(), in insertion order
    ki,             \* number of node ids the resolution loop has handled
    matches,        \* list of matched node ids
    candidates,     \* the candidates attached to the 404 detail
    status,         \* HTTP status of the answer (0: none yet)
    todo,           \* traversals still to run: sequence of [match, forward]
    result,         \* finished traversals: sequence of [match, forward, list]
    start_node,     \* traverse_graph: start_node
    forward,        \* traverse_graph: forward
    d,              \* traverse_graph: loop variable d
    callees_map,    \* forward adjacency: from -> list of to
    callers_map,    \* backward adjacency: to -> list of from
    frontier,       \* traverse_graph: frontier
    pending,        \* traverse_graph: nodes of frontier the for loop has not reached yet
    next_frontier,  \* traverse_graph: next_frontier
    visited,        \* traverse_graph: visited
    results,        \* traverse_graph: results (insertion ordered dict)
    \* ---- build_ccg_from_repo (ccg_builder.py) ----
    bpc,            \* position in build_ccg_from_repo
    tree,           \* the entries under repo_path: sequence of [path, readable, content]
    found,          \* what rglob("*.*") yields, in order
    fi,             \* number of entries of found the loop has handled
    b_nodes,        \* nodes
    b_edges,        \* edges
    seen_nodes,     \* seen_nodes
    offered,        \* history: every node of every parsed["nodes"], in order
    \* ---- atomic_write (post_process.py) and the artifact's readers ----
    writers,        \* the processes that call atomic_write on the artifact
    fs_dir,         \* the directory: name -> inode (Absent: no such name)
    inodes,         \* the files: inode -> content, a sequence of pieces
    version,        \* number of atomic_write calls begun
    committed,      \* history: the build whose data the final path names
    w_pc,           \* writer: position in atomic_write
    w_fd,           \* writer: the inode of the open temporary file
    w_off,          \* writer: pieces written so far (the file offset)
    w_ver,          \* writer: the build whose data it writes
    w_prior,        \* history: content of the final path when the call began
    r_pc,           \* reader: position in the request
    r_ino,          \* reader: the inode read_text opened
    r_buf,          \* reader: the pieces read so far
    r_status,       \* reader: HTTP status of the answer
    r_min,          \* history: committed when the reader opened the file
    \* ---- process_repo, clear_cache and the requests on outputs/<repo> ----
    p_present,      \* the directory outputs/<repo_name> exists
    p_dir,          \* its entries: name -> "none", "file" or "dir"
    p_pc,           \* process_repo: position
    p_run,          \* process_repo: number of the current call
    p_todo,         \* process_repo: entries of the listing not yet visited
    p_fail,         \* history: per call, the entries whose deletion failed
    p_result,       \* per call, what process_repo returned or raised
    p_before,       \* history: per call, the listing its cleanup iterated
    p_after,        \* history: per call, the entries when it returned
    p_build,        \* history: per call, how its graph build step ended
    p_graph,        \* history: per call, the graph it wrote to ccg.json
    c_pc,           \* clear_cache: position
    c_todo,         \* clear_cache: entries of the listing not yet removed
    c_count,        \* number of clear_cache requests begun
    cleared,        \* history: a clear_cache succeeded and no build came since
    rebuilt,        \* the documentation workflow has recreated the directory
    resp            \* history: the last response of the API

queryVars == <<qpc, nodes, edges, function, direction, depth, node_ids, ki, matches,
               candidates, status, todo, result, start_node, forward, d,
               callees_map, callers_map, frontier, pending, next_frontier,
               visited, results>>

buildVars == <<bpc, tree, found, fi, b_nodes, b_edges, seen_nodes, offered>>

writeVars == <<writers, fs_dir, inodes, version, committed, w_pc, w_fd, w_off, w_ver,
               w_prior, r_pc, r_ino, r_buf, r_status, r_min>>

repoVars == <<p_present, p_dir, p_pc, p_run, p_todo, p_fail, p_result, p_before,
              p_after, p_build, p_graph, c_pc, c_todo, c_count, cleared, rebuilt, resp>>

vars == <<queryVars, buildVars, writeVars, repoVars>>

\* what an operation leaves alone: the state of the other operations
notQuery == <<buildVars, writeVars, repoVars>>
notBuild == <<queryVars, writeVars, repoVars>>
notWrite == <<queryVars, buildVars, repoVars>>
notRepo == <<queryVars, buildVars, writeVars>>

-----------------------------------------------------------------------------
(* Python str primitives                                                   *)

Digits == <<"0","1","2","3","4","5","6","7","8","9">>
UpperCase == <<"A","B","C","D","E","F","G","H","I","J","K","L","M",
               "N","O","P","Q","R","S","T","U","V","W","X","Y","Z">>
LowerCase == <<"a","b","c","d","e","f","g","h","i","j","k","l","m",
               "n","o","p","q","r","s","t","u","v","w","x","y","z">>

IndexIn(seq, c) == CHOOSE i \in 1..Len(seq) : seq[i] = c
InSeq(seq, c) == \E i \in 1..Len(seq) : seq[i] = c

\* ord(c): the code point, which is what str comparison (sorted) uses
Ord(c) ==
    IF InSeq(Digits, c) THEN 47 + IndexIn(Digits, c)
    ELSE IF InSeq(UpperCase, c) THEN 64 + IndexIn(UpperCase, c)
    ELSE IF InSeq(LowerCase, c) THEN 96 + IndexIn(LowerCase, c)
    ELSE IF c = "-" THEN 45
    ELSE IF c = "." THEN 46
    ELSE IF c = "/" THEN 47
    ELSE IF c = ":" THEN 58
    ELSE 95   \* "_"

\* str.lower() on one character
LowerChar(c) == IF InSeq(UpperCase, c) THEN LowerCase[IndexIn(UpperCase, c)] ELSE c

\* str.lower()
Lower(s) == [i \in 1..Len(s) |-> LowerChar(s[i])]

\* str.endswith(suffix)
EndsWith(s, suffix) ==
    /\ Len(suffix) <= Len(s)
    /\ SubSeq(s, Len(s) - Len(suffix) + 1, Len(s)) = suffix

\* str.split(sep) for a one-character separator: the list of segments
RECURSIVE SplitFrom(_, _, _, _)
SplitFrom(s, sep, i, cur) ==
    IF i > Len(s) THEN <<cur>>
    ELSE IF s[i] = sep THEN <<cur>> \o SplitFrom(s, sep, i + 1, <<>>)
    ELSE SplitFrom(s, sep, i + 1, Append(cur, s[i]))

Split(s, sep) == SplitFrom(s, sep, 1, <<>>)

\* seq[-1]
Last(seq) == seq[Len(seq)]

\* s < t for Python str (code point order, a proper prefix is smaller)
RECURSIVE StrLess(_, _)
StrLess(s, t) ==
    IF t = <<>> THEN FALSE
    ELSE IF s = <<>> THEN TRUE
    ELSE IF Ord(Head(s)) # Ord(Head(t)) THEN Ord(Head(s)) < Ord(Head(t))
    ELSE StrLess(Tail(s), Tail(t))

\* sorted(list of str): the stable ascending arrangement; the element at
\* position i goes to the place after all smaller ones and all equal earlier ones
Sorted(seq) ==
    LET Before(i, j) == StrLess(seq[i], seq[j]) \/ (seq[i] = seq[j] /\ i < j)
        Place(i) == Cardinality({j \in 1..Len(seq) : Before(j, i)}) + 1
        place == [i \in 1..Len(seq) |-> Place(i)]
    IN [r \in 1..Len(seq) |-> seq[CHOOSE i \in 1..Len(seq) : place[i] = r]]

\* seq[:n]
Take(seq, n) == SubSeq(seq, 1, IF Len(seq) < n THEN Len(seq) ELSE n)

Range(seq) == {seq[i] : i \in 1..Len(seq)}

-----------------------------------------------------------------------------
(* query_relationships: name resolution, candidates, adjacency maps        *)

MaxCandidates == 50
MinDepth == 1
MaxDepth == 10

Colon == <<":">>
Dot == <<".">>

\* keys of node_map = {n["id"]: n for n in nodes}, in insertion order
NodeMapKeys(ns) ==
    LET tagged == [i \in 1..Len(ns) |-> [pos |-> i, id |-> ns[i].id]]
        firsts == SelectSeq(tagged, LAMBDA x : \A j \in 1..(x.pos - 1) : ns[j].id # x.id)
    IN [i \in 1..Len(firsts) |-> firsts[i].id]

\* node_map[k]: a later node with the same id replaces the earlier value
NodeMapGet(ns, k) ==
    LET i == CHOOSE j \in 1..Len(ns) :
                 ns[j].id = k /\ \A l \in (j + 1)..Len(ns) : ns[l].id # k
    IN ns[i]

\* body of the loop "for node_id in node_map.keys()", lines 112-125,
\* without the two continue statements: every rule that applies appends
MatchStepNoContinue(node_id, function_lower, ms) ==
    LET node_id_lower == Lower(node_id)
        bare_name == Lower(Last(Split(Last(Split(node_id, ":")), ".")))
        m1 == IF node_id_lower = function_lower THEN Append(ms, node_id) ELSE ms
        m2 == IF \/ EndsWith(node_id_lower, Colon \o function_lower)
                 \/ EndsWith(node_id_lower, Dot \o function_lower)
              THEN Append(m1, node_id) ELSE m1
    IN IF bare_name = function_lower THEN Append(m2, node_id) ELSE m2

\* body of the loop "for node_id in node_map.keys()", lines 112-125
MatchStep(node_id, function_lower, ms) ==
    LET node_id_lower == Lower(node_id)
        bare_name == Lower(Last(Split(Last(Split(node_id, ":")), ".")))
    IN IF node_id_lower = function_lower THEN Append(ms, node_id)
       ELSE IF \/ EndsWith(node_id_lower, Colon \o function_lower)
               \/ EndsWith(node_id_lower, Dot \o function_lower)
            THEN Append(ms, node_id)
       ELSE IF bare_name = function_lower THEN Append(ms, node_id)
       ELSE ms

\* [n["id"] for n in nodes if n.get("type") == "function"]
FunctionIds(ns) ==
    LET fs == SelectSeq(ns, LAMBDA n : n.type = "function")
    IN [i \in 1..Len(fs) |-> fs[i].id]

\* the candidates of the 404 detail without the sort
AllFunctionsUnsorted(ns) == Take(FunctionIds(ns), MaxCandidates)

\* all_functions = sorted([...])[:50]
AllFunctions(ns) == Take(Sorted(FunctionIds(ns)), MaxCandidates)

\* the edges the loop of lines 145-160 does not skip
UsableEdges(es) == SelectSeq(es, LAMBDA e : e.from # <<>> /\ e.to # <<>>)

\* callees_map with a normalisation pass: a to text that is the bare name
\* of a node is replaced by that node's id before the map is keyed
CalleesMapResolved(es) ==
    LET us == UsableEdges(es)
        Resolve(t) ==
            IF \E n \in Range(nodes) : EndsWith(n.id, Colon \o t)
            THEN (CHOOSE n \in Range(nodes) : EndsWith(n.id, Colon \o t)).id
            ELSE t
    IN [k \in {us[i].from : i \in 1..Len(us)} |->
           LET mine == SelectSeq(us, LAMBDA e : e.from = k)
           IN [i \in 1..Len(mine) |-> Resolve(mine[i].to)]]

\* callees_map: src -> [dst, ...] in edge order
CalleesMap(es) ==
    LET us == UsableEdges(es)
    IN [k \in {us[i].from : i \in 1..Len(us)} |->
           LET mine == SelectSeq(us, LAMBDA e : e.from = k)
           IN [i \in 1..Len(mine) |-> mine[i].to]]

\* callers_map: dst -> [src, ...] in edge order
CallersMap(es) ==
    LET us == UsableEdges(es)
    IN [k \in {us[i].to : i \in 1..Len(us)} |->
           LET mine == SelectSeq(us, LAMBDA e : e.to = k)
           IN [i \in 1..Len(mine) |-> mine[i].from]]

\* dict.get(key, [])
MapGet(map, k) == IF k \in DOMAIN map THEN map[k] ELSE <<>>

\* the traversals of lines 219-227: callees of every match, then callers
Traversals(ms, dir) ==
    (IF dir \in {"both", "callees"}
     THEN [i \in 1..Len(ms) |-> [match |-> ms[i], forward |-> TRUE]] ELSE <<>>)
    \o
    (IF dir \in {"both", "callers"}
     THEN [i \in 1..Len(ms) |-> [match |-> ms[i], forward |-> FALSE]] ELSE <<>>)

-----------------------------------------------------------------------------
(* traverse_graph                                                          *)

ResultIds(res) == {res[i].id : i \in 1..Len(res)}

\* the record stored for a neighbor, lines 186-193
NeighborInfo(ns, neighbor, dd) ==
    IF neighbor \in Range(NodeMapKeys(ns))
    THEN [id |-> neighbor, name |-> NodeMapGet(ns, neighbor).name,
          type |-> NodeMapGet(ns, neighbor).type,
          module |-> NodeMapGet(ns, neighbor).module, depth |-> dd + 1]
    ELSE [id |-> neighbor, name |-> neighbor, type |-> "unknown",
          module |-> "unknown", depth |-> dd + 1]

\* one neighbor without the test "neighbor not in results": the entry of a
\* rediscovered neighbor is replaced by one with the later depth
RecordNeighborAlways(ns, res, neighbor, dd) ==
    IF neighbor \in ResultIds(res)
    THEN [i \in 1..Len(res) |->
             IF res[i].id = neighbor THEN NeighborInfo(ns, neighbor, dd) ELSE res[i]]
    ELSE Append(res, NeighborInfo(ns, neighbor, dd))

\* one neighbor of the loop of lines 183-194: results after it
RecordNeighbor(ns, res, neighbor, dd) ==
    IF neighbor \notin ResultIds(res)
    THEN Append(res, NeighborInfo(ns, neighbor, dd))
    ELSE res

RECURSIVE RecordNeighbors(_, _, _, _)
RecordNeighbors(ns, res, neighbors, dd) ==
    IF neighbors = <<>> THEN res
    ELSE RecordNeighbor(ns,
             RecordNeighbors(ns, res, SubSeq(neighbors, 1, Len(neighbors) - 1), dd),
             Last(neighbors), dd)

-----------------------------------------------------------------------------
(* The requests checked: a persisted graph and a query on it               *)

MaxEdges == 4        \* edges of an enumerated small graph
MaxSmallDepth == 3   \* depth bounds tried on the small graphs
MaxIdLen == 3        \* length of an enumerated node id
MaxQueryLen == 2     \* length of an enumerated query string
ExtraCandidates == 2 \* function nodes tried around MaxCandidates

Node(id, type) == [id |-> id, type |-> type, name |-> id, module |-> "m"]
Edge(from, to) == [from |-> from, to |-> to]
Request(ns, es, fn, dir, dep) ==
    [nodes |-> ns, edges |-> es, function |-> fn, direction |-> dir, depth |-> dep]

\* all strings over alphabet of length at most n
RECURSIVE Strs(_, _)
Strs(alphabet, n) ==
    IF n = 0 THEN {<<>>}
    ELSE LET shorter == Strs(alphabet, n - 1)
         IN shorter \cup {Append(s, c) : s \in shorter, c \in alphabet}

\* -- small graphs over three texts, two of them node ids, one dangling
id_mf == <<"m", ":", "f">>
id_mg == <<"m", ":", "g">>
txt_h == <<"h">>
SmallTexts == <<id_mf, id_mg, txt_h>>
SmallNodes == <<Node(id_mf, "function"), Node(id_mg, "class")>>

\* every edge over the three texts, and two edges with an absent end
SmallPairs ==
    [i \in 1..9 |-> Edge(SmallTexts[((i - 1) \div 3) + 1], SmallTexts[((i - 1) % 3) + 1])]
    \o << Edge(<<>>, id_mg), Edge(id_mf, <<>>) >>

SmallEdgeLists ==
    { SelectSeq([i \in 1..Len(SmallPairs) |-> [e |-> SmallPairs[i], n |-> i]],
                LAMBDA x : x.n \in S) :
        S \in {T \in SUBSET (1..Len(SmallPairs)) : Cardinality(T) <= MaxEdges} }

EdgesOf(tagged) == [i \in 1..Len(tagged) |-> tagged[i].e]

SmallRequests ==
    { Request(SmallNodes, EdgesOf(es), fn, dir, dep) :
        es \in SmallEdgeLists, fn \in {<<"f">>, <<"M", ":", "G">>},
        dir \in {"callers", "callees"}, dep \in MinDepth..MaxSmallDepth }

\* -- a chain longer than the largest depth bound: na -> nb -> ... -> nl
ChainLen == MaxDepth + 2
ChainId(i) == <<"n", LowerCase[i]>>
ChainNodes == [i \in 1..ChainLen |-> Node(ChainId(i), "function")]
ChainEdges == [i \in 1..(ChainLen - 1) |-> Edge(ChainId(i), ChainId(i + 1))]
ChainRequests ==
    { Request(ChainNodes, ChainEdges, fn, "both", dep) :
        fn \in {ChainId(1), ChainId(ChainLen)}, dep \in {MaxDepth - 1, MaxDepth} }

\* -- the literal-matching regression graph
id_ma == <<"m", ":", "a">>
id_mb == <<"m", ":", "b">>
id_mc == <<"m", ":", "c">>
RegressionNodes == <<Node(id_ma, "function"), Node(id_mb, "function"), Node(id_mc, "function")>>
RegressionEdges == <<Edge(id_ma, <<"b">>), Edge(<<"b">>, <<"c">>)>>
RegressionRequest == Request(RegressionNodes, RegressionEdges, <<"a">>, "callees", 2)

\* -- name resolution: one node with an enumerated id, an enumerated query
IdAlphabet == {"a", "A", ":", "."}
QueryAlphabet == {"a", "A", "b", ":", "."}
NameRequests ==
    { Request(<<Node(id, IF Len(id) % 2 = 1 THEN "function" ELSE "class")>>,
              <<>>, fn, "callees", MinDepth) :
        id \in Strs(IdAlphabet, MaxIdLen), fn \in Strs(QueryAlphabet, MaxQueryLen) }

\* -- name resolution on the ids of the suffix-matching example
id_method == <<"p","k","g","/","m","o","d",".","p","y",":",
               "C","o","n","f","i","g",".","l","o","a","d","_","c","o","n","f","i","g">>
id_func == <<"p","k","g","/","m","o","d",".","p","y",":",
             "l","o","a","d","_","c","o","n","f","i","g">>
id_class == <<"p","k","g","/","m","o","d",".","p","y",":","C","o","n","f","i","g">>
q_load_config == <<"l","o","a","d","_","c","o","n","f","i","g">>
q_LOAD_CONFIG == <<"L","O","A","D","_","C","O","N","F","I","G">>
q_config == <<"c","o","n","f","i","g">>
q_nope == <<"n","o","p","e">>
ExampleNodes ==
    << Node(id_class, "class"), Node(id_method, "function"), Node(id_func, "function"),
       Node(id_method, "function"), Node(id_ma, "class"), Node(id_ma, "function") >>
ExampleRequests ==
    { Request(ExampleNodes, <<>>, fn, "both", MinDepth) :
        fn \in {q_load_config, q_LOAD_CONFIG, q_config, q_nope, id_func, <<"a">>} }

\* -- graphs with about MaxCandidates function nodes, stored in descending
\*    order of id, with a class node after every seventh function node
BigId(i) == <<LowerCase[((i - 1) \div 26) + 1], LowerCase[((i - 1) % 26) + 1]>>
BigNodes(k) ==
    LET both == [i \in 1..(2 * k) |->
                    LET n == k - ((i - 1) \div 2)
                    IN IF i % 2 = 1 THEN [n |-> n, node |-> Node(BigId(n), "function")]
                       ELSE [n |-> n, node |-> Node(<<"K">> \o BigId(n), "class")]]
        kept == SelectSeq(both, LAMBDA x : x.node.type = "function" \/ x.n % 7 = 0)
    IN [i \in 1..Len(kept) |-> kept[i].node]
BigRequests ==
    { Request(BigNodes(k), <<>>, q_nope, "both", MinDepth) :
        k \in (MaxCandidates - ExtraCandidates)..(MaxCandidates + ExtraCandidates) }

QueryRequests ==
    SmallRequests \cup ChainRequests \cup {RegressionRequest} \cup NameRequests
    \cup ExampleRequests \cup BigRequests

-----------------------------------------------------------------------------
(* query_relationships as a state machine                                  *)

QueryInit ==
    /\ \E r \in QueryRequests :
        /\ nodes = r.nodes
        /\ edges = r.edges
        /\ function = r.function
        /\ direction = r.direction
        /\ depth = r.depth
    /\ qpc = "resolve"
    /\ node_ids = NodeMapKeys(nodes)
    /\ ki = 0
    /\ matches = <<>>
    /\ candidates = <<>>
    /\ status = 0
    /\ todo = <<>>
    /\ result = <<>>
    /\ start_node = <<>>
    /\ forward = TRUE
    /\ d = 0
    /\ callees_map = <<>>
    /\ callers_map = <<>>
    /\ frontier = {}
    /\ pending = {}
    /\ next_frontier = {}
    /\ visited = {}
    /\ results = <<>>

bfsVars == <<start_node, forward, d, frontier, pending, next_frontier, visited, results>>
inputVars == <<nodes, edges, function, direction, depth, node_ids>>

\* lines 112-125: one iteration of the loop over node_map.keys()
ResolveStep ==
    /\ qpc = "resolve"
    /\ ki < Len(node_ids)
    /\ matches' = MatchStep(node_ids[ki + 1], Lower(function), matches)
    /\ ki' = ki + 1
    /\ UNCHANGED <<inputVars, qpc, candidates, status, todo, result, callees_map,
                   callers_map, bfsVars>>
    /\ UNCHANGED notQuery

\* lines 127-139: no node matches, HTTPException(404) with the candidates
ResolveNotFound ==
    /\ qpc = "resolve"
    /\ ki = Len(node_ids)
    /\ matches = <<>>
    /\ candidates' = AllFunctions(nodes)
    /\ status' = 404
    /\ qpc' = "done"
    /\ UNCHANGED <<inputVars, ki, matches, todo, result, callees_map, callers_map, bfsVars>>
    /\ UNCHANGED notQuery

\* lines 127 and 141-160, 200-217: matches found, adjacency maps built
ResolveFound ==
    /\ qpc = "resolve"
    /\ ki = Len(node_ids)
    /\ matches # <<>>
    /\ callees_map' = CalleesMap(edges)
    /\ callers_map' = CallersMap(edges)
    /\ todo' = Traversals(matches, direction)
    /\ qpc' = "execute"
    /\ UNCHANGED <<inputVars, ki, matches, candidates, status, result, bfsVars>>
    /\ UNCHANGED notQuery

\* lines 163-170: traverse_graph(match, forward, max_depth=depth) entered
TraverseCall ==
    /\ qpc = "execute"
    /\ todo # <<>>
    /\ start_node' = Head(todo).match
    /\ forward' = Head(todo).forward
    /\ results' = <<>>
    /\ frontier' = {Head(todo).match}
    /\ pending' = {Head(todo).match}
    /\ visited' = {}
    /\ next_frontier' = {}
    /\ d' = 0
    /\ qpc' = "bfs"
    /\ UNCHANGED <<inputVars, ki, matches, candidates, status, todo, result,
                   callees_map, callers_map>>
    /\ UNCHANGED notQuery

\* lines 171-173: the for loop reaches a node that was expanded before
SkipVisited(node) ==
    /\ qpc = "bfs"
    /\ node \in pending
    /\ node \in visited
    /\ pending' = pending \ {node}
    /\ UNCHANGED <<inputVars, ki, matches, candidates, status, todo, result, qpc,
                   callees_map, callers_map, start_node, forward, d, frontier,
                   next_frontier, visited, results>>
    /\ UNCHANGED notQuery

\* lines 171-194: the for loop reaches a node not visited yet and expands it
ExpandNode(node) ==
    /\ qpc = "bfs"
    /\ node \in pending
    /\ node \notin visited
    /\ visited' = visited \cup {node}
    /\ LET neighbors == IF forward THEN MapGet(callees_map, node)
                                   ELSE MapGet(callers_map, node)
       IN /\ results' = RecordNeighbors(nodes, results, neighbors, d)
          /\ next_frontier' = next_frontier \cup Range(neighbors)
    /\ pending' = pending \ {node}
    /\ UNCHANGED <<inputVars, ki, matches, candidates, status, todo, result, qpc,
                   callees_map, callers_map, start_node, forward, d, frontier>>
    /\ UNCHANGED notQuery

\* lines 169-170 and 196: the level is finished and another one follows
NextLevel ==
    /\ qpc = "bfs"
    /\ pending = {}
    /\ d + 1 < depth
    /\ frontier' = next_frontier
    /\ pending' = next_frontier
    /\ next_frontier' = {}
    /\ d' = d + 1
    /\ UNCHANGED <<inputVars, ki, matches, candidates, status, todo, result, qpc,
                   callees_map, callers_map, start_node, forward, visited, results>>
    /\ UNCHANGED notQuery

\* lines 196-198 and 222/227: the last level is finished, the list is returned
TraverseReturn ==
    /\ qpc = "bfs"
    /\ pending = {}
    /\ d + 1 = depth
    /\ frontier' = next_frontier
    /\ result' = Append(result, [match |-> start_node, forward |-> forward,
                                 list |-> results])
    /\ todo' = Tail(todo)
    /\ qpc' = "execute"
    /\ UNCHANGED <<inputVars, ki, matches, candidates, status, callees_map, callers_map,
                   start_node, forward, d, pending, next_frontier, visited, results>>
    /\ UNCHANGED notQuery

\* line 229: return result
Respond ==
    /\ qpc = "execute"
    /\ todo = <<>>
    /\ status' = 200
    /\ qpc' = "done"
    /\ UNCHANGED <<inputVars, ki, matches, candidates, todo, result, callees_map,
                   callers_map, bfsVars>>
    /\ UNCHANGED notQuery

QueryTexts == UNION {{e.from, e.to} : e \in Range(edges)} \cup {n.id : n \in Range(nodes)}

QueryNext ==
    \/ ResolveStep
    \/ ResolveNotFound
    \/ ResolveFound
    \/ TraverseCall
    \/ \E node \in QueryTexts : SkipVisited(node)
    \/ \E node \in QueryTexts : ExpandNode(node)
    \/ NextLevel
    \/ TraverseReturn
    \/ Respond


-----------------------------------------------------------------------------
(* Properties of query_relationships                                       *)

\* the texts one hop from a set of texts along a direction, read off the
\* edge list (edges with an absent end are not part of either map)
Hop(S, fwd) ==
    LET usable == {e \in Range(edges) : e.from # <<>> /\ e.to # <<>>}
    IN IF fwd THEN {e.to : e \in {x \in usable : x.from \in S}}
              ELSE {e.from : e \in {x \in usable : x.to \in S}}

\* the texts reachable from start by a walk of exactly k hops
RECURSIVE HopSet(_, _, _)
HopSet(start, fwd, k) ==
    IF k = 0 THEN {start} ELSE Hop(HopSet(start, fwd, k - 1), fwd)

DepthsRight(start, fwd, list) ==
    /\ \A i \in 1..Len(list) :
        /\ list[i].depth \in 1..depth
        /\ list[i].id \in HopSet(start, fwd, list[i].depth)
        /\ \A k \in 1..(list[i].depth - 1) : list[i].id \notin HopSet(start, fwd, k)
    /\ \A i, j \in 1..Len(list) : list[i].id = list[j].id => i = j

\* C1: traverse_graph reports no neighbor deeper than the depth bound, the
\* depth reported for a neighbor is the smallest number of hops (>= 1) by
\* which it is reachable from the start along the direction, and a neighbor
\* is reported once, with that first-recorded depth, during the traversal
\* and in every returned list.
C1_BfsDepths ==
    /\ qpc = "bfs" => DepthsRight(start_node, forward, results)
    /\ \A i \in 1..Len(result) :
        DepthsRight(result[i].match, result[i].forward, result[i].list)

\* a returned list with a depth-1 neighbor that is also two hops away, and
\* a text just beyond the bound that is left out
C1_Witness ==
    \E i \in 1..Len(result) :
        LET r == result[i] IN
        /\ depth >= 2
        /\ \E j \in 1..Len(r.list) :
            r.list[j].depth = 1 /\ r.list[j].id \in HopSet(r.match, r.forward, 2)
        /\ \E j \in 1..Len(r.list) : r.list[j].depth = depth
        /\ \E t \in HopSet(r.match, r.forward, depth + 1) : t \notin ResultIds(r.list)

IsRegression ==
    /\ nodes = RegressionNodes
    /\ edges = RegressionEdges
    /\ function = <<"a">>
    /\ direction = "callees"
    /\ depth = 2

\* C2 as stated: on the regression graph the query a/callees/2 returns b at
\* depth 1 for the match m:a and does not return c.
C2_Original ==
    (IsRegression /\ qpc = "done") =>
        \E i \in 1..Len(result) :
            /\ result[i].match = id_ma
            /\ result[i].forward
            /\ \E j \in 1..Len(result[i].list) :
                result[i].list[j].id = <<"b">> /\ result[i].list[j].depth = 1
            /\ <<"c">> \notin ResultIds(result[i].list)

\* C2 amended: on the regression graph the query a/callees/2 matches m:a
\* only and returns b at depth 1 and c at depth 2 (the from text "b" of the
\* second edge is literally the to text "b" of the first).
C2_Regression ==
    (IsRegression /\ qpc = "done") =>
        /\ matches = <<id_ma>>
        /\ Len(result) = 1
        /\ result[1].match = id_ma
        /\ result[1].forward
        /\ [j \in 1..Len(result[1].list) |->
               <<result[1].list[j].id, result[1].list[j].depth, result[1].list[j].type>>]
           = << <<(<<"b">>), 1, "unknown">>, <<(<<"c">>), 2, "unknown">> >>

C2_Witness == IsRegression /\ qpc = "done" /\ status = 200

\* the three rules, stated on positions of the id
SameIgnoringCase(s, t) ==
    Len(s) = Len(t) /\ \A i \in 1..Len(s) : LowerChar(s[i]) = LowerChar(t[i])

AfterLastChar(s, c) ==
    LET ks == {k \in 1..Len(s) : s[k] = c}
    IN IF ks = {} THEN s
       ELSE SubSeq(s, (CHOOSE k \in ks : \A l \in ks : l <= k) + 1, Len(s))

RuleExact(id, q) == SameIgnoringCase(id, q)
RuleSuffix(id, q) ==
    \E k \in 1..Len(id) :
        id[k] \in {":", "."} /\ SameIgnoringCase(SubSeq(id, k + 1, Len(id)), q)
RuleBare(id, q) == SameIgnoringCase(AfterLastChar(AfterLastChar(id, ":"), "."), q)

ExpectedMatches ==
    {id \in {nodes[i].id : i \in 1..Len(nodes)} :
        RuleExact(id, function) \/ RuleSuffix(id, function) \/ RuleBare(id, function)}

\* C3: once resolution has run, the match list holds exactly the node ids
\* that equal the query, end with ":"+query or "."+query, or have the query
\* as last segment, compared case-insensitively, each exactly once.
C3_Matches ==
    qpc # "resolve" =>
        /\ Range(matches) = ExpectedMatches
        /\ Len(matches) = Cardinality(ExpectedMatches)
        /\ status = 404 <=> ExpectedMatches = {}

\* the query load_config matches the method and the function, each once
C3_Witness ==
    /\ qpc = "done"
    /\ function = q_load_config
    /\ matches = <<id_method, id_func>>

\* s <= t in code point order
LexLeq(s, t) ==
    \E k \in 0..Len(s) :
        /\ k <= Len(t)
        /\ \A i \in 1..k : s[i] = t[i]
        /\ \/ k = Len(s)
           \/ k < Len(t) /\ Ord(s[k + 1]) < Ord(t[k + 1])

CandidatesShape ==
    /\ Len(candidates) <= MaxCandidates
    /\ \A i \in 1..(Len(candidates) - 1) : LexLeq(candidates[i], candidates[i + 1])
    /\ \A i \in 1..Len(candidates) :
        \E j \in 1..Len(nodes) : nodes[j].id = candidates[i] /\ nodes[j].type = "function"

HasFunctionNode == \E j \in 1..Len(nodes) : nodes[j].type = "function"

\* C4 as stated: a query that matches nothing fails with 404 and non-empty,
\* sorted candidates, at most 50, all of them ids of function nodes.
C4_Original ==
    (qpc = "done" /\ ExpectedMatches = {}) =>
        status = 404 /\ candidates # <<>> /\ CandidatesShape

\* C4 amended: a query that matches nothing fails with 404 and sorted
\* candidates, at most 50, all of them ids of function nodes; the list is
\* non-empty exactly when the graph has a function node.
C4_Candidates ==
    (qpc = "done" /\ ExpectedMatches = {}) =>
        /\ status = 404
        /\ CandidatesShape
        /\ candidates # <<>> <=> HasFunctionNode

\* a 404 whose candidates are cut at 50 out of more function nodes
C4_Witness ==
    /\ status = 404
    /\ Len(candidates) = MaxCandidates
    /\ Cardinality({j \in 1..Len(nodes) : nodes[j].type = "function"}) > MaxCandidates

-----------------------------------------------------------------------------
(* build_ccg_from_repo (ccg_builder.py)                                    *)

MaxFiles == 2    \* files in an enumerated repository tree

f_docs_md == <<"d","o","c","s",".","m","d">>
f_ccg_json == <<"c","c","g",".","j","s","o","n">>
f_cached_docs_json == <<"c","a","c","h","e","d","_","d","o","c","s",".","j","s","o","n">>

\* the names build_ccg_from_repo does not parse, line 129
ReservedNames == {f_docs_md, f_ccg_json, f_cached_docs_json}

\* the same names, with one of them forgotten
ReservedNamesShort == {f_docs_md, f_ccg_json}

\* Path.name: the last component of a relative path
PathName(path) == Last(Split(path, "/"))

\* Path.suffix: from the last dot of the name, unless that dot is the first
\* or the last character of the name
PathSuffix(path) ==
    LET name == PathName(path)
        dots == {i \in 1..Len(name) : name[i] = "."}
        i == IF dots = {} THEN 0 ELSE CHOOSE k \in dots : \A l \in dots : l <= k
    IN IF 1 < i /\ i < Len(name) THEN SubSeq(name, i, Len(name)) ELSE <<>>

\* the pattern "*.*" of rglob against a name: a dot somewhere in it
MatchesStarDotStar(path) == \E i \in 1..Len(PathName(path)) : PathName(path)[i] = "."

\* repo_path.rglob("*.*"): the entries of the tree, in its order, whose
\* name matches the pattern
Rglob(tr) == SelectSeq(tr, LAMBDA f : MatchesStarDotStar(f.path))

\* F applied to the value of v, with v evaluated once
With(v, F(_)) == CHOOSE r \in {F(x) : x \in {v}} : TRUE

\* ---- parse_python: the ast of a file and FuncVisitor over it ----

\* Python's None, and what is falsy like it
None == <<>>

\* An ast is the sequence of its nodes below Module in the order
\* NodeVisitor.generic_visit reaches them, each with its nesting depth: a
\* node's children are the nodes that follow it with a greater depth, up to
\* the next node that is not deeper. kind: "ClassDef", "FunctionDef",
\* "Call", or "Other" for every node class FuncVisitor has no method for
\* (statements, expressions, AsyncFunctionDef, Lambda). func: the func
\* expression of a Call, as the attribute names from the call outward
\* (attrs) and the identifier they end at (base, None when the chain ends
\* at something that is not a Name).
AstNode(kind, name, func, level) ==
    [kind |-> kind, name |-> name, func |-> func, depth |-> level]

NoFunc == [attrs |-> <<>>, base |-> None]
NameFunc(id) == [attrs |-> <<>>, base |-> id]
AttributeFunc(attrs, base) == [attrs |-> attrs, base |-> base]

ClassDef(name, level) == AstNode("ClassDef", name, NoFunc, level)
FunctionDef(name, level) == AstNode("FunctionDef", name, NoFunc, level)
CallNode(func, level) == AstNode("Call", None, func, level)
OtherNode(level) == AstNode("Other", None, NoFunc, level)

Reversed(s) == [i \in 1..Len(s) |-> s[Len(s) + 1 - i]]

\* ".".join(parts)
RECURSIVE JoinDots(_)
JoinDots(parts) ==
    IF parts = <<>> THEN <<>>
    ELSE IF Len(parts) = 1 THEN parts[1]
    ELSE parts[1] \o Dot \o JoinDots(Tail(parts))

\* lines 56-70: the called name, best effort
Called(func) ==
    IF func.attrs = <<>>
    THEN func.base
    ELSE LET parts == IF func.base # None THEN Append(func.attrs, func.base)
                      ELSE func.attrs
         IN JoinDots(Reversed(parts))

\* lines 71-72 with an edge kept once per pair of ends
EmitEdgeOnce(out, current_fn, called) ==
    IF called # None /\ current_fn # None
       /\ \A i \in 1..Len(out) : ~(out[i].from = current_fn /\ out[i].to = called)
    THEN Append(out, [from |-> current_fn, to |-> called, label |-> "calls"])
    ELSE out

\* lines 71-72 with the edge emitted without a current function
EmitEdgeAnywhere(out, current_fn, called) ==
    IF called # None
    THEN Append(out, [from |-> current_fn, to |-> called, label |-> "calls"])
    ELSE out

\* lines 71-72: the edge of a call
EmitEdge(out, current_fn, called) ==
    IF called # None /\ current_fn # None
    THEN Append(out, [from |-> current_fn, to |-> called, label |-> "calls"])
    ELSE out

\* lines 40 and 52 left out: the slot keeps the inner definition's value
LeaveKeeping(st, frame) == [st EXCEPT !.stack = Tail(@)]

\* lines 40 and 52: generic_visit of a definition returned, the slot it set
\* gets the value saved on entry
Leave(st, frame) ==
    IF frame.slot = "fn"
    THEN [st EXCEPT !.current_fn = frame.prev, !.stack = Tail(@)]
    ELSE [st EXCEPT !.current_class = frame.prev, !.stack = Tail(@)]

\* the definitions whose generic_visit has returned when the visitor
\* reaches a node of this depth
RECURSIVE Unwind(_, _)
Unwind(st, level) ==
    IF st.stack # <<>> /\ st.stack[1].depth >= level
    THEN With(Leave(st, st.stack[1]), LAMBDA left : Unwind(left, level))
    ELSE st

\* lines 34-39: visit_ClassDef up to generic_visit
visit_ClassDef(st, node, module_name) ==
    [st EXCEPT
        !.nodes = Append(@, [id |-> module_name \o Colon \o node.name,
                             type |-> "class", name |-> node.name,
                             module |-> module_name]),
        !.stack = <<[slot |-> "class", prev |-> st.current_class,
                     depth |-> node.depth]>> \o @,
        !.current_class = node.name]

\* lines 44-47 naming every function after the module alone
FunctionIdNoClass(current_class, name, module_name) == module_name \o Colon \o name

\* lines 44-47: the id of a function definition
FunctionId(current_class, name, module_name) ==
    IF current_class # None
    THEN module_name \o Colon \o current_class \o Dot \o name
    ELSE module_name \o Colon \o name

\* lines 42-51: visit_FunctionDef up to generic_visit
visit_FunctionDef(st, node, module_name, lineno) ==
    LET nid == FunctionId(st.current_class, node.name, module_name)
    IN [st EXCEPT
           !.nodes = Append(@, [id |-> nid, type |-> "function", name |-> node.name,
                                module |-> module_name, lineno |-> lineno]),
           !.stack = <<[slot |-> "fn", prev |-> st.current_fn,
                        depth |-> node.depth]>> \o @,
           !.current_fn = nid]

\* lines 54-72: visit_Call up to generic_visit
visit_Call(st, node) ==
    [st EXCEPT !.edges = EmitEdge(@, st.current_fn, Called(node.func))]

\* NodeVisitor.visit: the method for the node's class, generic_visit for
\* the others
Visit(st, node, module_name, lineno) ==
    With(Unwind(st, node.depth), LAMBDA at :
        CASE node.kind = "ClassDef" -> visit_ClassDef(at, node, module_name)
          [] node.kind = "FunctionDef" -> visit_FunctionDef(at, node, module_name, lineno)
          [] node.kind = "Call" -> visit_Call(at, node)
          [] OTHER -> at)

\* lines 80-81: v = FuncVisitor(); v.visit(tree), after the first k nodes
RECURSIVE Visited(_, _, _)
Visited(ast, k, module_name) ==
    IF k = 0
    THEN [nodes |-> <<>>, edges |-> <<>>, current_fn |-> None,
          current_class |-> None, stack |-> <<>>]
    ELSE With(Visited(ast, k - 1, module_name), LAMBDA before :
             Visit(before, ast[k], module_name, k))

\* lines 24-86; parses: ast.parse(content) returns
parse_python(content, module_name) ==
    IF ~content.parses THEN [nodes |-> <<>>, edges |-> <<>>]
    ELSE With(Visited(content.ast, Len(content.ast), module_name), LAMBDA v :
             [nodes |-> v.nodes, edges |-> v.edges])

\* ---- parse_generic: the three regular expressions over the text ----

\* \w, [A-Za-z0-9_\.] and \s on one character
IsWordChar(c) == InSeq(LowerCase, c) \/ InSeq(UpperCase, c) \/ InSeq(Digits, c) \/ c = "_"
IsNameChar(c) == IsWordChar(c) \/ c = "."
IsSpace(c) == c \in {" ", "\n", "\t"}

\* \b before position p: one side is a word character, the other is not
WordBoundary(text, p) ==
    LET before == p > 1 /\ p - 1 <= Len(text) /\ IsWordChar(text[p - 1])
        after == p >= 1 /\ p <= Len(text) /\ IsWordChar(text[p])
    IN before # after

\* the end of the longest run of characters with property P from position s
\* (s - 1 when the character at s has not the property)
RunEnd(text, s, P(_)) ==
    CHOOSE e \in (s - 1)..Len(text) :
        /\ \A i \in s..e : P(text[i])
        /\ e = Len(text) \/ ~P(text[e + 1])

StartsWithAt(text, s, word) ==
    /\ s + Len(word) - 1 <= Len(text)
    /\ SubSeq(text, s, s + Len(word) - 1) = word

kw_def == <<"d", "e", "f">>
kw_function == <<"f", "u", "n", "c", "t", "i", "o", "n">>
kw_fn == <<"f", "n">>
kw_class == <<"c", "l", "a", "s", "s">>
kw_struct == <<"s", "t", "r", "u", "c", "t">>

\* lines 90 and 92: the keywords of FUNC_DEF_RE and of CLASS_DEF_RE, in the
\* order of the alternation
FuncKeywords == <<kw_def, kw_function, kw_fn>>
ClassKeywords == <<kw_class, kw_struct>>

NoMatch == [start |-> 0, end |-> 0, group |-> <<>>]

\* \b(keyword)\s+([A-Za-z0-9_\.]+)\b with one keyword, matched at s: the
\* name is the longest run that ends at a word boundary
MatchKeywordAt(text, s, kw) ==
    IF ~(WordBoundary(text, s) /\ StartsWithAt(text, s, kw)) THEN NoMatch
    ELSE LET ws == RunEnd(text, s + Len(kw), IsSpace)
             run == RunEnd(text, ws + 1, IsNameChar)
             ends == {j \in (ws + 1)..run : WordBoundary(text, j + 1)}
         IN IF ws < s + Len(kw) \/ ends = {} THEN NoMatch
            ELSE LET e == CHOOSE j \in ends : \A l \in ends : l <= j
                 IN [start |-> s, end |-> e, group |-> SubSeq(text, ws + 1, e)]

\* lines 90 and 92: a definition pattern matched at s, the first
\* alternative that matches
MatchDefAt(text, s, keywords) ==
    LET hits == {k \in 1..Len(keywords) : MatchKeywordAt(text, s, keywords[k]).start # 0}
    IN IF hits = {} THEN NoMatch
       ELSE MatchKeywordAt(text, s, keywords[CHOOSE k \in hits : \A l \in hits : k <= l])

\* line 91: CALL_RE matched at s
MatchCallAt(text, s) ==
    IF ~(s <= Len(text) /\ IsNameChar(text[s])) THEN NoMatch
    ELSE LET run == RunEnd(text, s, IsNameChar)
             ws == RunEnd(text, run + 1, IsSpace)
         IN IF ws + 1 <= Len(text) /\ text[ws + 1] = "("
            THEN [start |-> s, end |-> ws + 1, group |-> SubSeq(text, s, run)]
            ELSE NoMatch

\* one of the three patterns matched at s
MatchAt(text, s, pattern) ==
    CASE pattern = "FUNC_DEF_RE" -> MatchDefAt(text, s, FuncKeywords)
      [] pattern = "CLASS_DEF_RE" -> MatchDefAt(text, s, ClassKeywords)
      [] pattern = "CALL_RE" -> MatchCallAt(text, s)

\* re.finditer: the matches from left to right, each search starting where
\* the previous match ended
RECURSIVE FindIter(_, _, _)
FindIter(text, pos, pattern) ==
    LET starts == {s \in pos..Len(text) : MatchAt(text, s, pattern).start # 0}
    IN IF starts = {} THEN <<>>
       ELSE With(MatchAt(text, CHOOSE s \in starts : \A t \in starts : s <= t, pattern),
                 LAMBDA m : <<m>> \o FindIter(text, m.end + 1, pattern))

FuncDefs(text) == FindIter(text, 1, "FUNC_DEF_RE")
ClassDefs(text) == FindIter(text, 1, "CLASS_DEF_RE")
Calls(text) == FindIter(text, 1, "CALL_RE")

GenericNode(name, type, module_name) ==
    [id |-> module_name \o Colon \o name, type |-> type, name |-> name,
     module |-> module_name]

\* lines 99-104: the function nodes, then the class nodes
GenericNodes(text, module_name) ==
    With(FuncDefs(text), LAMBDA fs :
        [i \in 1..Len(fs) |-> GenericNode(fs[i].group, "function", module_name)])
    \o With(ClassDefs(text), LAMBDA cs :
        [i \in 1..Len(cs) |-> GenericNode(cs[i].group, "class", module_name)])

\* lines 110-111 attributing a call to the last node instead of the first
CallEdgeFromLast(ns, called) ==
    IF ns # <<>>
    THEN <<[from |-> ns[Len(ns)].id, to |-> called, label |-> "calls"]>>
    ELSE <<>>

\* lines 110-111: the edge of one call match
CallEdge(ns, called) ==
    IF ns # <<>>
    THEN <<[from |-> ns[1].id, to |-> called, label |-> "calls"]>>
    ELSE <<>>

\* lines 106-111: the edges of the first k call matches
RECURSIVE CallEdges(_, _, _)
CallEdges(ns, calls, k) ==
    IF k = 0 THEN <<>>
    ELSE CallEdges(ns, calls, k - 1) \o CallEdge(ns, calls[k].group)

\* lines 95-112
parse_generic(content, module_name) ==
    With(GenericNodes(content.text, module_name), LAMBDA ns :
        With(Calls(content.text), LAMBDA calls :
            [nodes |-> ns, edges |-> CallEdges(ns, calls, Len(calls))]))

\* lines 131-148 with the extension compared as it is, not lowered
ParsedCaseSensitive(f) ==
    IF PathSuffix(f.path) = <<".", "p", "y">>
    THEN parse_python(f.content, f.path)
    ELSE parse_generic(f.content, f.path)

\* lines 131-148: the extractor is chosen by the lowered suffix
Parsed(f) ==
    IF Lower(PathSuffix(f.path)) = <<".", "p", "y">>
    THEN parse_python(f.content, f.path)
    ELSE parse_generic(f.content, f.path)

\* lines 150-154 without the seen_nodes test: every node is appended
MergeNodeNoSeen(acc, n) ==
    [nodes |-> Append(acc.nodes, n), seen |-> acc.seen \cup {n.id}]

\* lines 150-154: one node of parsed["nodes"]
MergeNode(acc, n) ==
    IF n.id \notin acc.seen
    THEN [nodes |-> Append(acc.nodes, n), seen |-> acc.seen \cup {n.id}]
    ELSE acc

RECURSIVE MergeNodes(_, _)
MergeNodes(acc, ns) ==
    IF ns = <<>> THEN acc
    ELSE MergeNode(MergeNodes(acc, SubSeq(ns, 1, Len(ns) - 1)), Last(ns))

\* -- the repository trees checked

\* A content is what read_text returned: text is the characters, parses
\* and ast are what ast.parse makes of them.
FileContent(parses, ast, text) == [parses |-> parses, ast |-> ast, text |-> text]

n_C == <<"C">>
n_f == <<"f">>
n_g == <<"g">>
n_m == <<"m">>
n_x == <<"x">>

\* def f(): x(); x() / def g(): pass / class f: pass; read as text, a type
\* g with a call of y
Content1 ==
    FileContent(TRUE,
        <<FunctionDef(n_f, 1), CallNode(NameFunc(n_x), 2), CallNode(NameFunc(n_x), 2),
          FunctionDef(n_g, 1), ClassDef(n_f, 1)>>,
        kw_class \o <<" ", "g", " ", "y", "(">>)

\* class C with a method m calling f; read as text, a function m twice
Content2 ==
    FileContent(TRUE,
        <<ClassDef(n_C, 1), FunctionDef(n_m, 2), CallNode(NameFunc(n_f), 3)>>,
        kw_fn \o <<" ", "m", " ">> \o kw_fn \o <<" ", "m">>)

\* readable: p.read_text(encoding="utf-8") returns; it raises for a
\* directory, an unreadable file and a file that is not UTF-8
Entry(path, readable, content) ==
    [path |-> path, readable |-> readable, content |-> content]

TreePaths ==
    { <<"a", ".", "p", "y">>, <<"B", ".", "P", "Y">>, <<"c", ".", "j", "s">>,
      <<"m", "k">>, f_docs_md, f_ccg_json, <<"s", "/">> \o f_cached_docs_json }

\* the files a tree is made of: every path with either content, and two
\* of the paths with bytes that do not decode
TreeEntries ==
    { Entry(p, TRUE, c) : p \in TreePaths, c \in {Content1, Content2} }
    \cup { Entry(p, FALSE, Content1) :
              p \in { <<"a", ".", "p", "y">>, <<"c", ".", "j", "s">> } }

RECURSIVE Trees(_)
Trees(n) ==
    IF n = 0 THEN {<<>>}
    ELSE LET shorter == Trees(n - 1)
         IN shorter \cup
            { Append(t, e) :
                t \in {u \in shorter : Len(u) = n - 1}, e \in TreeEntries }

DistinctPaths(t) == \A i, j \in 1..Len(t) : t[i].path = t[j].path => i = j

\* -- one Python file with any small ast

MaxAstNodes == 3   \* nodes below Module in an enumerated ast

\* a.b.x(...), and x called on something that is not a name: (...).x(...)
f_a_b_x == AttributeFunc(<<n_x, <<"b">> >>, <<"a">>)
f_anon_x == AttributeFunc(<<n_x>>, None)

NodeChoices(level) ==
    { ClassDef(n_C, level), FunctionDef(n_f, level), FunctionDef(n_g, level),
      CallNode(NameFunc(n_x), level), CallNode(f_a_b_x, level), OtherNode(level) }

\* the asts of exactly n nodes: a node is a child of the one before it, or
\* a sibling of it or of one of its ancestors
RECURSIVE AstsOfLen(_)
AstsOfLen(n) ==
    IF n = 0 THEN {<<>>}
    ELSE LET choices == UNION { NodeChoices(level) : level \in 1..n }
             extended == { Append(a, node) : a \in AstsOfLen(n - 1), node \in choices }
         IN { a \in extended : a[n].depth <= (IF n = 1 THEN 1 ELSE a[n - 1].depth + 1) }

SmallAsts(size) == UNION { AstsOfLen(n) : n \in 0..size }

\* def f(): x() / def f(): x() -- a function defined twice;
\* class C: (def f(): x(); x()) / def f(): x() -- a method and a function;
\* def f(): (def g(): x()); if ..: a.b.x(x()) / class C: x();
\* def f(): g()(); h().x(); x() -- calls of what is not a name
ExampleAsts ==
    { <<FunctionDef(n_f, 1), CallNode(NameFunc(n_x), 2),
        FunctionDef(n_f, 1), CallNode(NameFunc(n_x), 2)>>,
      <<ClassDef(n_C, 1), FunctionDef(n_f, 2), CallNode(NameFunc(n_x), 3),
        CallNode(NameFunc(n_x), 3), FunctionDef(n_f, 1), CallNode(NameFunc(n_x), 2)>>,
      <<FunctionDef(n_f, 1), FunctionDef(n_g, 2), CallNode(NameFunc(n_x), 3),
        OtherNode(2), CallNode(f_a_b_x, 3), CallNode(NameFunc(n_x), 3),
        ClassDef(n_C, 1), CallNode(NameFunc(n_x), 2)>>,
      <<FunctionDef(n_f, 1), CallNode(NoFunc, 2), CallNode(NameFunc(n_g), 3),
        CallNode(f_anon_x, 2), CallNode(NameFunc(<<"h">>), 3),
        CallNode(NameFunc(n_x), 2)>> }

a_py == <<"a", ".", "p", "y">>
c_js == <<"c", ".", "j", "s">>

PythonTrees(size) ==
    { <<Entry(a_py, TRUE, FileContent(TRUE, ast, <<>>))>> :
        ast \in SmallAsts(size) \cup ExampleAsts }
    \cup { <<Entry(a_py, TRUE, FileContent(FALSE, <<>>, <<"(">>))>> }

\* -- one file of another language with any short text

MaxPieces == 4     \* pieces an enumerated text is made of

TextPieces ==
    { kw_fn \o <<" ">>, kw_class \o <<" ">>, <<"a">>, <<".">>, <<"(">>, <<" ">> }

RECURSIVE TextsOfLen(_)
TextsOfLen(n) ==
    IF n = 0 THEN {<<>>}
    ELSE { t \o piece : t \in TextsOfLen(n - 1), piece \in TextPieces }

ShortTexts(pieces) == UNION { TextsOfLen(n) : n \in 0..pieces }

\* class a fn b b( -- the type comes first in the text, the function first
\* in the nodes; struct s.t. x (y( -- dots at the end of a name
ExampleTexts ==
    { kw_class \o <<" ", "a", " ">> \o kw_fn \o <<" ", "b", " ", "b", "(">>,
      <<"a", "(", " ">> \o kw_def \o <<" ", "b", " ">> \o kw_function
          \o <<"\n", "a", ".", "b", "(", "x", " ", "(">>,
      kw_struct \o <<" ", "s", ".", "t", ".", " ", "x", " ", "(", "y", "(">> }

GenericTrees(pieces) ==
    { <<Entry(c_js, TRUE, FileContent(FALSE, <<>>, text))>> :
        text \in ShortTexts(pieces) \cup ExampleTexts }

RepoTrees(files, size, pieces) ==
    {t \in Trees(files) : DistinctPaths(t)} \cup PythonTrees(size) \cup GenericTrees(pieces)

-----------------------------------------------------------------------------
(* build_ccg_from_repo as a state machine                                  *)

BuildInit ==
    /\ tree \in RepoTrees(MaxFiles, MaxAstNodes, MaxPieces)
    /\ found = Rglob(tree)
    /\ fi = 0
    /\ b_nodes = <<>>
    /\ b_edges = <<>>
    /\ seen_nodes = {}
    /\ offered = <<>>
    /\ bpc = "scan"

\* lines 128-130: the next entry has a reserved name
SkipReserved ==
    /\ bpc = "scan"
    /\ fi < Len(found)
    /\ PathName(found[fi + 1].path) \in ReservedNames
    /\ fi' = fi + 1
    /\ UNCHANGED <<tree, found, b_nodes, b_edges, seen_nodes, offered, bpc>>
    /\ UNCHANGED notBuild

\* lines 131-135: read_text raises, the entry is skipped
SkipUnreadable ==
    /\ bpc = "scan"
    /\ fi < Len(found)
    /\ PathName(found[fi + 1].path) \notin ReservedNames
    /\ ~found[fi + 1].readable
    /\ fi' = fi + 1
    /\ UNCHANGED <<tree, found, b_nodes, b_edges, seen_nodes, offered, bpc>>
    /\ UNCHANGED notBuild

\* lines 131-156: the entry is read, parsed and merged
ParseFile ==
    /\ bpc = "scan"
    /\ fi < Len(found)
    /\ PathName(found[fi + 1].path) \notin ReservedNames
    /\ found[fi + 1].readable
    /\ \E parsed \in {Parsed(found[fi + 1])} :
        /\ \E merged \in {MergeNodes([nodes |-> b_nodes, seen |-> seen_nodes],
                                      parsed.nodes)} :
            /\ b_nodes' = merged.nodes
            /\ seen_nodes' = merged.seen
        /\ b_edges' = b_edges \o parsed.edges
        /\ offered' = offered \o parsed.nodes
    /\ fi' = fi + 1
    /\ UNCHANGED <<tree, found, bpc>>
    /\ UNCHANGED notBuild

\* lines 158-159: return ccg
BuildReturn ==
    /\ bpc = "scan"
    /\ fi = Len(found)
    /\ bpc' = "done"
    /\ UNCHANGED <<tree, found, fi, b_nodes, b_edges, seen_nodes, offered>>
    /\ UNCHANGED notBuild

BuildNext ==
    \/ SkipReserved
    \/ SkipUnreadable
    \/ ParseFile
    \/ BuildReturn

\* -- the same scan as one function of the tree, for the callers of
\* build_ccg_from_repo

\* lines 128-156: the loop over the first k entries rglob yields
RECURSIVE Scanned(_, _)
Scanned(fs, k) ==
    IF k = 0 THEN [nodes |-> <<>>, edges |-> <<>>, seen |-> {}]
    ELSE With(Scanned(fs, k - 1), LAMBDA acc :
            IF PathName(fs[k].path) \in ReservedNames \/ ~fs[k].readable
            THEN acc
            ELSE With(Parsed(fs[k]), LAMBDA parsed :
                    With(MergeNodes([nodes |-> acc.nodes, seen |-> acc.seen],
                                    parsed.nodes),
                         LAMBDA merged :
                            [nodes |-> merged.nodes,
                             edges |-> acc.edges \o parsed.edges,
                             seen |-> merged.seen])))

\* lines 115-159
build_ccg_from_repo(tr) ==
    With(Rglob(tr), LAMBDA fs :
        With(Scanned(fs, Len(fs)), LAMBDA acc :
            [nodes |-> acc.nodes, edges |-> acc.edges]))

-----------------------------------------------------------------------------
(* Properties of build_ccg_from_repo                                       *)

\* the steps of the scan and the function of the tree return the same graph
BuildStepsAreTheFunction ==
    bpc = "done" => [nodes |-> b_nodes, edges |-> b_edges] = build_ccg_from_repo(tree)

\* the first node of each id, in order
FirstOfEachId(ns) ==
    LET tagged == [i \in 1..Len(ns) |-> [pos |-> i, node |-> ns[i]]]
        firsts == SelectSeq(tagged,
                     LAMBDA x : \A j \in 1..(x.pos - 1) : ns[j].id # x.node.id)
    IN [i \in 1..Len(firsts) |-> firsts[i].node]

\* C5: at every point of the scan and in the returned graph, no two nodes
\* share an id, and the nodes are the first node of each id among the nodes
\* the extractors returned so far, in scan order (later ones are dropped).
C5_UniqueFirstWins ==
    /\ \A i, j \in 1..Len(b_nodes) : b_nodes[i].id = b_nodes[j].id => i = j
    /\ b_nodes = FirstOfEachId(offered)
    /\ seen_nodes = {b_nodes[i].id : i \in 1..Len(b_nodes)}

\* a returned graph for which a later node with a known id but another kind
\* was dropped
C5_Witness ==
    /\ bpc = "done"
    /\ Len(b_nodes) >= 3
    /\ \E k \in 1..Len(offered) :
        /\ offered[k] \notin Range(b_nodes)
        /\ \E i \in 1..Len(b_nodes) :
            b_nodes[i].id = offered[k].id /\ b_nodes[i].type # offered[k].type

\* the extractor outputs of the entries of a tree that are files with a
\* name that is not reserved and a content that decodes, in tree order
HasPyExtension(path) ==
    LET name == Lower(PathName(path))
    IN Len(name) > 3 /\ SubSeq(name, Len(name) - 2, Len(name)) = <<".", "p", "y">>

OutputOf(f) ==
    IF HasPyExtension(f.path) THEN parse_python(f.content, f.path)
    ELSE parse_generic(f.content, f.path)

RECURSIVE FoldNodes(_)
FoldNodes(fs) ==
    IF fs = <<>> THEN <<>>
    ELSE FoldNodes(SubSeq(fs, 1, Len(fs) - 1)) \o OutputOf(Last(fs)).nodes

RECURSIVE FoldEdges(_)
FoldEdges(fs) ==
    IF fs = <<>> THEN <<>>
    ELSE FoldEdges(SubSeq(fs, 1, Len(fs) - 1)) \o OutputOf(Last(fs)).edges

Eligible(f) == PathName(f.path) \notin ReservedNames /\ f.readable

\* C10 as stated: the returned graph is the fold of the extractor outputs of
\* every entry of the tree whose name is not reserved and whose content
\* decodes.
C10_FoldOverEveryFile ==
    bpc = "done" =>
        LET fs == SelectSeq(tree, Eligible)
        IN b_nodes = FirstOfEachId(FoldNodes(fs)) /\ b_edges = FoldEdges(fs)

\* what the code does: the fold runs over the entries with a dot in the name
BuildFoldsDottedFiles ==
    bpc = "done" =>
        LET fs == SelectSeq(tree, LAMBDA f : Eligible(f) /\ "." \in Range(PathName(f.path)))
        IN b_nodes = FirstOfEachId(FoldNodes(fs)) /\ b_edges = FoldEdges(fs)

\* a scan that went past an unreadable entry and a reserved one and then
\* parsed a file
BuildPastSkippedEntries ==
    /\ bpc = "done"
    /\ \E i, j, k \in 1..Len(found) :
        /\ i < k /\ j < k
        /\ ~found[i].readable /\ PathName(found[i].path) \notin ReservedNames
        /\ PathName(found[j].path) \in ReservedNames /\ found[j].readable
        /\ Eligible(found[k])
        /\ \E n \in Range(b_nodes) : n.module = found[k].path

-----------------------------------------------------------------------------
(* Properties of parse_python, read off the ast                            *)

\* node j is around node i: every node from j + 1 to i is deeper than j
IsAncestor(ast, j, i) ==
    j < i /\ \A k \in (j + 1)..i : ast[k].depth > ast[j].depth

\* the innermost definition of a kind around node i (0 when there is none)
Enclosing(ast, i, kind) ==
    LET around == {j \in 1..Len(ast) : IsAncestor(ast, j, i) /\ ast[j].kind = kind}
    IN IF around = {} THEN 0 ELSE CHOOSE j \in around : \A l \in around : l <= j

\* "<module>:<Class>.<name>" inside a class, "<module>:<name>" elsewhere
ScopeId(ast, k, module_name) ==
    LET c == Enclosing(ast, k, "ClassDef")
    IN IF c = 0 THEN module_name \o Colon \o ast[k].name
       ELSE module_name \o Colon \o ast[c].name \o Dot \o ast[k].name

FunctionScopes(ast) == {k \in 1..Len(ast) : ast[k].kind = "FunctionDef"}

\* the call sites of a callee text whose innermost function is scope k
SitesIn(ast, k, callee) ==
    {i \in 1..Len(ast) : /\ ast[i].kind = "Call"
                         /\ Called(ast[i].func) = callee
                         /\ Enclosing(ast, i, "FunctionDef") = k}

CalleeTexts(ast) ==
    {Called(ast[i].func) : i \in {j \in 1..Len(ast) : ast[j].kind = "Call"}} \ {None}

EdgeCount(from, to) ==
    Cardinality({i \in 1..Len(b_edges) : b_edges[i].from = from /\ b_edges[i].to = to})

\* the files of the tree that build_ccg_from_repo hands to parse_python and
\* that ast.parse accepts
PreciselyParsed ==
    {i \in 1..Len(tree) : /\ Eligible(tree[i])
                          /\ MatchesStarDotStar(tree[i].path)
                          /\ HasPyExtension(tree[i].path)
                          /\ tree[i].content.parses}

\* C11 as stated: for every function scope of a precisely parsed file and
\* every callee text, the graph has as many edges from the scope's id to
\* the text as the scope has call sites of it.
C11_EdgesPerScope ==
    bpc = "done" =>
        \A i \in PreciselyParsed :
            LET ast == tree[i].content.ast
            IN \A k \in FunctionScopes(ast), callee \in CalleeTexts(ast) \cup {n_x} :
                EdgeCount(ScopeId(ast, k, tree[i].path), callee)
                    = Cardinality(SitesIn(ast, k, callee))

\* C11: for every function id of a precisely parsed file and every callee
\* text, the graph has as many edges from the id to the text as there are
\* call sites of it in all the function scopes of the file with that id
\* (so exactly N for a scope with N sites whose id no other scope has).
C11_EdgesPerId ==
    bpc = "done" =>
        \A i \in PreciselyParsed :
            LET ast == tree[i].content.ast
            IN \A k \in FunctionScopes(ast), callee \in CalleeTexts(ast) \cup {n_x} :
                EdgeCount(ScopeId(ast, k, tree[i].path), callee)
                    = Cardinality(UNION {SitesIn(ast, l, callee) :
                          l \in {m \in FunctionScopes(ast) :
                                    ScopeId(ast, m, tree[i].path)
                                        = ScopeId(ast, k, tree[i].path)}})

\* a graph with two edges from one function scope to the same callee text
\* and one edge from another scope to it
C11_Witness ==
    /\ bpc = "done"
    /\ \E i \in PreciselyParsed :
        LET ast == tree[i].content.ast
        IN \E k, l \in FunctionScopes(ast) :
            /\ Cardinality(SitesIn(ast, k, n_x)) = 2
            /\ EdgeCount(ScopeId(ast, k, tree[i].path), n_x) = 2
            /\ Cardinality(SitesIn(ast, l, n_x)) = 1
            /\ EdgeCount(ScopeId(ast, l, tree[i].path), n_x) = 1

\* the call sites of an ast that have a function definition around them and
\* a callee text, in the order of the visit, each as the edge from the id of
\* the innermost such definition
SiteEdges(ast, module_name) ==
    LET sites == SelectSeq([i \in 1..Len(ast) |-> i],
                    LAMBDA i : /\ ast[i].kind = "Call"
                               /\ Called(ast[i].func) # None
                               /\ Enclosing(ast, i, "FunctionDef") # 0)
    IN [j \in 1..Len(sites) |->
            [from |-> ScopeId(ast, Enclosing(ast, sites[j], "FunctionDef"), module_name),
             to |-> Called(ast[sites[j]].func),
             label |-> "calls"]]

\* the entry the scan is at goes to parse_python and ast.parse accepts it
AtPreciseFile ==
    /\ bpc = "scan" /\ fi < Len(found)
    /\ Eligible(found[fi + 1])
    /\ HasPyExtension(found[fi + 1].path)
    /\ found[fi + 1].content.parses

\* C14: the edges parse_python adds for a file are those of its call sites
\* that have a function definition around them, each from the id of the
\* innermost one (the current function again once a nested definition has
\* ended); a call with no function definition around it, at module level
\* or in a class body, adds no edge.
C14_EdgesFromCurrentFunction ==
    [][AtPreciseFile =>
            b_edges' = b_edges \o SiteEdges(found[fi + 1].content.ast,
                                            found[fi + 1].path)]_vars

\* a returned graph of a file in which a call follows a nested definition
\* inside a function and has its edge from the outer function, and a call
\* in no function has no edge
C14_Witness ==
    /\ bpc = "done"
    /\ \E i \in PreciselyParsed :
        LET ast == tree[i].content.ast
        IN \E outer, inner, site, bare \in 1..Len(ast) :
            /\ ast[outer].kind = "FunctionDef" /\ ast[inner].kind = "FunctionDef"
            /\ IsAncestor(ast, outer, inner) /\ inner < site
            /\ ~IsAncestor(ast, inner, site)
            /\ ast[site].kind = "Call"
            /\ Enclosing(ast, site, "FunctionDef") = outer
            /\ EdgeCount(ScopeId(ast, outer, tree[i].path), Called(ast[site].func)) = 1
            /\ ast[bare].kind = "Call" /\ Called(ast[bare].func) # None
            /\ Enclosing(ast, bare, "FunctionDef") = 0
            /\ Len(b_edges) = Len(SiteEdges(ast, tree[i].path))
            /\ Len(tree) = 1

------------------------------------------------------------------------\* C18: at every point of the scan and in the returned graph, the from of
\* every edge is the id of a node of the graph, also when the node the
\* edge's own scope offered was dropped as a duplicate of an earlier one.
C18_EdgeSourcesAreNodes ==
    \A k \in 1..Len(b_edges) :
        \E i \in 1..Len(b_nodes) : b_edges[k].from = b_nodes[i].id

\* a returned graph of one file with two function definitions of one id:
\* the node of the second was dropped, the second has a call site, and the
\* edge of that site is in the graph, from the id the first node carries;
\* and the to of an edge names no node
C18_Witness ==
    /\ bpc = "done"
    /\ Len(tree) = 1 /\ PreciselyParsed = {1}
    /\ LET ast == tree[1].content.ast
           path == tree[1].path
       IN \E k, l \in FunctionScopes(ast) :
            /\ k < l /\ ScopeId(ast, k, path) = ScopeId(ast, l, path)
            /\ SitesIn(ast, k, n_x) = {}
            /\ SitesIn(ast, l, n_x) # {}
            /\ EdgeCount(ScopeId(ast, l, path), n_x) = Cardinality(SitesIn(ast, l, n_x))
            /\ Cardinality({i \in 1..Len(b_nodes) :
                                b_nodes[i].id = ScopeId(ast, l, path)}) = 1
            /\ \E i \in 1..Len(b_nodes) :
                    b_nodes[i].id = ScopeId(ast, l, path) /\ b_nodes[i].lineno = k
    /\ \E e \in 1..Len(b_edges) :
        \A i \in 1..Len(b_nodes) :
            b_edges[e].to # b_nodes[i].id /\ b_edges[e].to # b_nodes[i].name

-----
(* Properties of parse_generic, read off the scans of the text             *)

\* the entry the scan is at goes to parse_generic
AtGenericFile ==
    /\ bpc = "scan" /\ fi < Len(found)
    /\ Eligible(found[fi + 1])
    /\ ~HasPyExtension(found[fi + 1].path)

\* the name of the first node parse_generic discovers in a text: the first
\* match of the definition scan, or else the first match of the type scan
FirstDiscovered(text) ==
    IF FuncDefs(text) # <<>> THEN FuncDefs(text)[1].group ELSE ClassDefs(text)[1].group

\* C15: for a file handed to parse_generic, when the definition scan or the
\* type scan matches, one edge is added per match of the call scan and
\* every one of them is from the id of the first node discovered (the
\* first definition match if there is one, else the first type match),
\* wherever the call is in the text; when neither scan matches, no edge is
\* added.
C15_CoarseAttribution ==
    [][AtGenericFile =>
        LET text == found[fi + 1].content.text
            path == found[fi + 1].path
        IN /\ SubSeq(b_edges', 1, Len(b_edges)) = b_edges
           /\ IF FuncDefs(text) = <<>> /\ ClassDefs(text) = <<>>
              THEN b_edges' = b_edges
              ELSE /\ Len(b_edges') = Len(b_edges) + Len(Calls(text))
                   /\ \A k \in (Len(b_edges) + 1)..Len(b_edges') :
                        /\ b_edges'[k].from = path \o Colon \o FirstDiscovered(text)
                        /\ b_edges'[k].to = Calls(text)[k - Len(b_edges)].group
       ]_vars

\* a returned graph of one text with two nodes or more in which a call
\* comes before the first definition and all the edges, two or more, are
\* from the first node
C15_Witness ==
    /\ bpc = "done"
    /\ Len(tree) = 1 /\ Eligible(tree[1]) /\ ~HasPyExtension(tree[1].path)
    /\ LET text == tree[1].content.text
       IN /\ FuncDefs(text) # <<>>
          /\ Len(b_nodes) >= 2
          /\ Len(Calls(text)) >= 2
          /\ Calls(text)[1].start < FuncDefs(text)[1].start
          /\ Len(b_edges) = Len(Calls(text))
          /\ \A k \in 1..Len(b_edges) : b_edges[k].from = b_nodes[1].id

\* a returned graph of a text with calls and no definition and no type
C15_NoNodeNoEdge ==
    /\ bpc = "done"
    /\ Len(tree) = 1 /\ Eligible(tree[1]) /\ ~HasPyExtension(tree[1].path)
    /\ Calls(tree[1].content.text) # <<>>
    /\ b_nodes = <<>> /\ b_edges = <<>>

-----------------------------------------------------------------------------
(* atomic_write (post_process.py) against the readers of the artifact      *)
(* (unified_api.py), on a file system of names, inodes and pieces          *)

NumChunks == 2    \* pieces in which a file's data reaches the disk
MaxBuilds == 2    \* atomic_write calls on the artifact in a run
NumReaders == 2   \* concurrent requests reading the artifact

WriterIds == {1, 2}
Readers == 1..NumReaders

Absent == 0       \* no inode under a name

dot_tmp == <<".", "t", "m", "p">>

\* Path.with_suffix(suffix): the name with its suffix replaced
WithSuffix(path, suffix) ==
    SubSeq(path, 1, Len(path) - Len(PathSuffix(path))) \o suffix

\* line 14 written so that the data goes straight to the final path
TmpPathInPlace(path) == path

\* line 14: tmp = path.with_suffix(path.suffix + ".tmp")
TmpPath(path) == WithSuffix(path, PathSuffix(path) \o dot_tmp)

ArtifactPath == f_ccg_json
FsNames == {ArtifactPath, WithSuffix(ArtifactPath, PathSuffix(ArtifactPath) \o dot_tmp)}

\* the serialized graph of build v, as the pieces in which it is written
Data(v) == [i \in 1..NumChunks |-> <<v, i>>]

\* what stands for the content of a name that names nothing, and for a
\* piece of a file that was never written
NoFile == << <<-1, 0>> >>
Hole == <<-1, -1>>

\* the content under a name
ContentAt(name) == IF fs_dir[name] = Absent THEN NoFile ELSE inodes[fs_dir[name]]

\* a write of one piece at an offset of a file (a gap reads as holes)
WriteAt(content, off, piece) ==
    [i \in 1..(IF Len(content) > off THEN Len(content) ELSE off + 1) |->
        IF i = off + 1 THEN piece
        ELSE IF i <= Len(content) THEN content[i]
        ELSE Hole]

\* line 17 with the rename left out
NotRenamed(dir, src, dst) == dir

\* os.replace(src, dst): dst names the inode of src, src names nothing;
\* nothing happens when both are the same name
Renamed(dir, src, dst) ==
    IF src = dst THEN dir
    ELSE [n \in DOMAIN dir |-> IF n = dst THEN dir[src]
                               ELSE IF n = src THEN Absent ELSE dir[n]]

writerVars == <<w_pc, w_fd, w_off, w_ver, w_prior>>
readerVars == <<r_pc, r_ino, r_buf, r_status, r_min>>

WriteInit ==
    /\ writers = {1}
    /\ \E old \in {Absent, 1}, stale \in {Absent, 2} :
        /\ fs_dir = [n \in FsNames |-> IF n = ArtifactPath THEN old ELSE stale]
        /\ committed = IF old = Absent THEN -1 ELSE 0
    /\ inodes = <<Data(0), <<<<0, 1>>>> >>
    /\ version = 0
    /\ w_pc = [w \in WriterIds |-> "idle"]
    /\ w_fd = [w \in WriterIds |-> Absent]
    /\ w_off = [w \in WriterIds |-> 0]
    /\ w_ver = [w \in WriterIds |-> 0]
    /\ w_prior = [w \in WriterIds |-> NoFile]
    /\ r_pc = [r \in Readers |-> "exists"]
    /\ r_ino = [r \in Readers |-> Absent]
    /\ r_buf = [r \in Readers |-> <<>>]
    /\ r_status = [r \in Readers |-> 0]
    /\ r_min = [r \in Readers |-> -1]

\* write_json_atomic(repo_path / "ccg.json", ccg) is called, lines 20-21, 53
StartWrite(w) ==
    /\ w \in writers
    /\ w_pc[w] \in {"idle", "done", "crashed"}
    /\ version < MaxBuilds
    /\ version' = version + 1
    /\ w_ver' = [w_ver EXCEPT ![w] = version + 1]
    /\ w_prior' = [w_prior EXCEPT ![w] = ContentAt(ArtifactPath)]
    /\ w_pc' = [w_pc EXCEPT ![w] = "open"]
    /\ UNCHANGED <<writers, fs_dir, inodes, committed, w_fd, w_off, readerVars>>
    /\ UNCHANGED notWrite

\* line 15: tmp.open("w") creates the temporary file or truncates it
OpenTmp(w) ==
    /\ w_pc[w] = "open"
    /\ LET tmp == TmpPath(ArtifactPath) IN
        IF fs_dir[tmp] = Absent
        THEN /\ inodes' = Append(inodes, <<>>)
             /\ fs_dir' = [fs_dir EXCEPT ![tmp] = Len(inodes) + 1]
             /\ w_fd' = [w_fd EXCEPT ![w] = Len(inodes) + 1]
        ELSE /\ inodes' = [inodes EXCEPT ![fs_dir[tmp]] = <<>>]
             /\ fs_dir' = fs_dir
             /\ w_fd' = [w_fd EXCEPT ![w] = fs_dir[tmp]]
    /\ w_off' = [w_off EXCEPT ![w] = 0]
    /\ w_pc' = [w_pc EXCEPT ![w] = "write"]
    /\ UNCHANGED <<writers, version, committed, w_ver, w_prior, readerVars>>
    /\ UNCHANGED notWrite

\* line 16 and the end of the with block: the next piece of data reaches
\* the file
WritePiece(w) ==
    /\ w_pc[w] = "write"
    /\ w_off[w] < NumChunks
    /\ inodes' = [inodes EXCEPT ![w_fd[w]] =
                     WriteAt(@, w_off[w], Data(w_ver[w])[w_off[w] + 1])]
    /\ w_off' = [w_off EXCEPT ![w] = @ + 1]
    /\ UNCHANGED <<writers, fs_dir, version, committed, w_pc, w_fd, w_ver, w_prior,
                   readerVars>>
    /\ UNCHANGED notWrite

\* line 17: tmp.replace(path)
Replace(w) ==
    /\ w_pc[w] = "write"
    /\ w_off[w] = NumChunks
    /\ fs_dir[TmpPath(ArtifactPath)] # Absent
    /\ fs_dir' = Renamed(fs_dir, TmpPath(ArtifactPath), ArtifactPath)
    /\ committed' = w_ver[w]
    /\ w_pc' = [w_pc EXCEPT ![w] = "done"]
    /\ UNCHANGED <<writers, inodes, version, w_fd, w_off, w_ver, w_prior, readerVars>>
    /\ UNCHANGED notWrite

\* line 17: tmp.replace(path) when no file has the temporary name any
\* more: FileNotFoundError leaves atomic_write
ReplaceFails(w) ==
    /\ w_pc[w] = "write"
    /\ w_off[w] = NumChunks
    /\ fs_dir[TmpPath(ArtifactPath)] = Absent
    /\ w_pc' = [w_pc EXCEPT ![w] = "failed"]
    /\ UNCHANGED <<writers, fs_dir, inodes, version, committed, w_fd, w_off, w_ver,
                   w_prior, readerVars>>
    /\ UNCHANGED notWrite

\* the process running atomic_write dies: before the open, between two
\* pieces, or before the rename; what is not on disk yet is lost
Crash(w) ==
    /\ w_pc[w] \in {"open", "write"}
    /\ w_pc' = [w_pc EXCEPT ![w] = "crashed"]
    /\ UNCHANGED <<writers, fs_dir, inodes, version, committed, w_fd, w_off, w_ver,
                   w_prior, readerVars>>
    /\ UNCHANGED notWrite

\* unified_api.py lines 88-94: ccg_path.exists() is false, 404
ReadNotFound(r) ==
    /\ r_pc[r] = "exists"
    /\ fs_dir[ArtifactPath] = Absent
    /\ r_status' = [r_status EXCEPT ![r] = 404]
    /\ r_pc' = [r_pc EXCEPT ![r] = "done"]
    /\ UNCHANGED <<writers, fs_dir, inodes, version, committed, writerVars,
                   r_ino, r_buf, r_min>>
    /\ UNCHANGED notWrite

\* unified_api.py lines 88-97: ccg_path.exists() is true, read_text opens
\* the file the path names now
ReadOpen(r) ==
    /\ r_pc[r] = "exists"
    /\ fs_dir[ArtifactPath] # Absent
    /\ r_ino' = [r_ino EXCEPT ![r] = fs_dir[ArtifactPath]]
    /\ r_min' = [r_min EXCEPT ![r] = committed]
    /\ r_pc' = [r_pc EXCEPT ![r] = "read"]
    /\ UNCHANGED <<writers, fs_dir, inodes, version, committed, writerVars,
                   r_buf, r_status>>
    /\ UNCHANGED notWrite

\* read_text: the next piece of the open file is read
ReadPiece(r) ==
    /\ r_pc[r] = "read"
    /\ Len(r_buf[r]) < Len(inodes[r_ino[r]])
    /\ r_buf' = [r_buf EXCEPT ![r] = Append(@, inodes[r_ino[r]][Len(@) + 1])]
    /\ UNCHANGED <<writers, fs_dir, inodes, version, committed, writerVars,
                   r_pc, r_ino, r_status, r_min>>
    /\ UNCHANGED notWrite

\* lines 96-99: end of file; json.loads accepts a whole document only
ReadParse(r) ==
    /\ r_pc[r] = "read"
    /\ Len(r_buf[r]) = Len(inodes[r_ino[r]])
    /\ r_status' = [r_status EXCEPT ![r] =
                       IF \E v \in 0..MaxBuilds : r_buf[r] = Data(v) THEN 200 ELSE 500]
    /\ r_pc' = [r_pc EXCEPT ![r] = "done"]
    /\ UNCHANGED <<writers, fs_dir, inodes, version, committed, writerVars,
                   r_ino, r_buf, r_min>>
    /\ UNCHANGED notWrite

WriteNext ==
    \/ \E w \in WriterIds : StartWrite(w)
    \/ \E w \in WriterIds : OpenTmp(w)
    \/ \E w \in WriterIds : WritePiece(w)
    \/ \E w \in WriterIds : Replace(w)
    \/ \E w \in WriterIds : Crash(w)
    \/ \E r \in Readers : ReadNotFound(r)
    \/ \E r \in Readers : ReadOpen(r)
    \/ \E r \in Readers : ReadPiece(r)
    \/ \E r \in Readers : ReadParse(r)

\* -- two builds of the same directory at once: two calls of atomic_write
\* for the same path, no crash, and one request reading the artifact

ConcurrentInit ==
    /\ writers = WriterIds
    /\ \E old \in {Absent, 1} :
        /\ fs_dir = [n \in FsNames |-> IF n = ArtifactPath THEN old ELSE Absent]
        /\ committed = IF old = Absent THEN -1 ELSE 0
    /\ inodes = <<Data(0)>>
    /\ version = 0
    /\ w_pc = [w \in WriterIds |-> "idle"]
    /\ w_fd = [w \in WriterIds |-> Absent]
    /\ w_off = [w \in WriterIds |-> 0]
    /\ w_ver = [w \in WriterIds |-> 0]
    /\ w_prior = [w \in WriterIds |-> NoFile]
    /\ r_pc = [r \in Readers |-> IF r = 1 THEN "exists" ELSE "done"]
    /\ r_ino = [r \in Readers |-> Absent]
    /\ r_buf = [r \in Readers |-> <<>>]
    /\ r_status = [r \in Readers |-> 0]
    /\ r_min = [r \in Readers |-> -1]

ConcurrentNext ==
    \/ \E w \in WriterIds : StartWrite(w)
    \/ \E w \in WriterIds : OpenTmp(w)
    \/ \E w \in WriterIds : WritePiece(w)
    \/ \E w \in WriterIds : Replace(w)
    \/ \E w \in WriterIds : ReplaceFails(w)
    \/ \E r \in Readers : ReadNotFound(r)
    \/ \E r \in Readers : ReadOpen(r)
    \/ \E r \in Readers : ReadPiece(r)
    \/ \E r \in Readers : ReadParse(r)

-----------------------------------------------------------------------------
(* Properties of atomic_write                                              *)

\* C6: with one build at a time writing the artifact through atomic_write,
\* a request that has read the artifact has read all the pieces of one
\* build's data, the one under the path when it began or a later one, and
\* is answered from a whole document.
C6_NoTornRead ==
    \A r \in Readers :
        (r_pc[r] = "done" /\ r_status[r] # 404) =>
            /\ r_status[r] = 200
            /\ \E v \in 0..version : v >= r_min[r] /\ r_buf[r] = Data(v)

\* a request read the previous data to its end while the path already
\* named the new data
C6_Witness ==
    \E r \in Readers :
        /\ r_pc[r] = "done"
        /\ r_buf[r] = Data(0)
        /\ ContentAt(ArtifactPath) = Data(1)

\* C7: from the call of atomic_write on, crashed or not, the final path
\* holds the whole content it held before the call or the whole new data;
\* before the rename it is the former, after it the latter.
C7_CrashSafe ==
    \A w \in WriterIds :
        w_pc[w] # "idle" =>
            /\ ContentAt(ArtifactPath) \in {w_prior[w], Data(w_ver[w])}
            /\ w_pc[w] = "crashed" => ContentAt(ArtifactPath) = w_prior[w]
            /\ w_pc[w] = "done" => ContentAt(ArtifactPath) = Data(w_ver[w])

\* a crash between two pieces: the temporary file is partial, the final
\* path holds the previous data
C7_Witness ==
    \E w \in WriterIds :
        /\ w_pc[w] = "crashed"
        /\ w_off[w] > 0 /\ w_off[w] < NumChunks
        /\ Len(ContentAt(TmpPath(ArtifactPath))) = w_off[w]
        /\ ContentAt(ArtifactPath) = Data(w_ver[w] - 1)

\* C16 as stated: with two builds writing the artifact at once, the final
\* path is at all times absent or holds all the pieces of the prior data or
\* of one build's data, and no build's atomic_write ends in an error.
C16_ConcurrentBuildsSafe ==
    /\ ContentAt(ArtifactPath) \in {NoFile} \cup {Data(v) : v \in 0..MaxBuilds}
    /\ \A w \in writers : w_pc[w] # "failed"

\* both builds had written all their pieces to the one temporary file; the
\* first rename took it, the second found no file to rename
ConcurrentRenameLost ==
    \E w1, w2 \in writers :
        /\ w_pc[w1] = "done" /\ w_pc[w2] = "failed"
        /\ w_fd[w1] = w_fd[w2]

\* the final path names a file that a build is still writing
ConcurrentTornArtifact ==
    /\ fs_dir[ArtifactPath] # Absent
    /\ ContentAt(ArtifactPath) \notin {Data(v) : v \in 0..MaxBuilds}
    /\ \E w \in writers : w_pc[w] = "write" /\ w_fd[w] = fs_dir[ArtifactPath]

-----------------------------------------------------------------------------
(* process_repo (post_process.py) and clear_cache, get_ccg_graph and       *)
(* query_relationships (unified_api.py) on one repository's directory      *)
(* outputs/<repo_name>                                                     *)

Runs == 2             \* calls of process_repo in a run
MaxClears == 2        \* DELETE /cache requests in a run

\* line 10
ALLOWED_FILES == {f_docs_md, f_ccg_json, f_cached_docs_json}

f_src == <<"s", "r", "c">>
f_readme == <<"R", "E", "A", "D", "M", "E", ".", "m", "d">>
f_ccg_tmp == TmpPath(f_ccg_json)

\* the names a repository directory may hold, and which of them are
\* directories
EntryNames == ALLOWED_FILES \cup {f_src, f_readme, f_ccg_tmp}
KindOf(name) == IF name = f_src THEN "dir" ELSE "file"

Names(dir) == {n \in EntryNames : dir[n] # "none"}
DirOf(names) == [n \in EntryNames |-> IF n \in names THEN KindOf(n) ELSE "none"]

\* line 61 with every entry retained
KeptAlways(name) == TRUE

\* line 61: p.name in ALLOWED_FILES
Kept(name) == name \in ALLOWED_FILES

\* unified_api.py line 252 reporting success without removing the directory
RmdirKept(present) == present

\* unified_api.py line 252: output_dir.rmdir() of an empty directory
Rmdir(present) == FALSE

\* what rglob finds at or below an entry of the directory: the directory
\* src holds one python file, README.md and a stale temporary file are
\* texts, the reserved names are skipped whatever they hold
src_a_py == f_src \o <<"/">> \o a_py

FilesBelow(name) ==
    IF name = f_src THEN <<Entry(src_a_py, TRUE, Content2)>>
    ELSE IF name = f_readme THEN <<Entry(f_readme, TRUE, Content1)>>
    ELSE <<Entry(name, TRUE, FileContent(FALSE, <<>>, <<"{">>))>>

ListingOrder ==
    <<f_docs_md, f_src, f_readme, f_ccg_json, f_cached_docs_json, f_ccg_tmp>>

RECURSIVE RepoTree(_, _)
RepoTree(dir, k) ==
    IF k = 0 THEN <<>>
    ELSE RepoTree(dir, k - 1)
            \o (IF dir[ListingOrder[k]] = "none" THEN <<>>
                ELSE FilesBelow(ListingOrder[k]))

\* no graph was written
NoGraph == [nodes |-> <<"none">>, edges |-> <<>>]

\* unified_api.py lines 48-50 and 88-90: ccg_path.exists()
ArtifactExists == p_present /\ p_dir[f_ccg_json] # "none"

procVars == <<p_pc, p_run, p_todo, p_fail, p_result, p_before, p_after, p_build,
              p_graph>>
cacheVars == <<c_pc, c_todo, c_count, cleared, rebuilt, resp>>

NoResponse == [op |-> "none", status |-> 0, cleared |-> FALSE]

ProcIdle ==
    /\ p_pc = "idle"
    /\ p_todo = {}
    /\ p_fail = [k \in 1..Runs |-> {}]
    /\ p_result = [k \in 1..Runs |-> "none"]
    /\ p_before = [k \in 1..Runs |-> {}]
    /\ p_after = [k \in 1..Runs |-> {}]
    /\ p_build = [k \in 1..Runs |-> "none"]
    /\ p_graph = [k \in 1..Runs |-> NoGraph]

ClearIdle ==
    /\ c_pc = "idle" /\ c_todo = {} /\ c_count = 0
    /\ cleared = FALSE /\ rebuilt = FALSE
    /\ resp = NoResponse

\* a directory with any of the entries but the temporary file, which a
\* failed write leaves behind, or no directory
CleanupInit ==
    /\ \E names \in SUBSET (EntryNames \ {f_ccg_tmp}), present \in BOOLEAN :
        /\ ~present => names = {}
        /\ p_present = present
        /\ p_dir = DirOf(names)
    /\ p_run = 0
    /\ ProcIdle
    /\ ClearIdle

\* process_repo(repo_path) is called
ProcStart ==
    /\ p_pc \in {"idle", "returned"}
    /\ p_run < Runs
    /\ p_run' = p_run + 1
    /\ p_pc' = "exists"
    /\ UNCHANGED <<p_present, p_dir, p_todo, p_fail, p_result, p_before, p_after,
                   p_build, p_graph, cacheVars>>
    /\ UNCHANGED notRepo

\* lines 26-27: the directory does not exist, FileNotFoundError
ProcNoRepo ==
    /\ p_pc = "exists"
    /\ ~p_present
    /\ p_result' = [p_result EXCEPT ![p_run] = "FileNotFoundError"]
    /\ p_pc' = "returned"
    /\ UNCHANGED <<p_present, p_dir, p_run, p_todo, p_fail, p_before, p_after,
                   p_build, p_graph, cacheVars>>
    /\ UNCHANGED notRepo

\* lines 33-36 placed after the write of lines 41-47: no_docs is returned
\* with cached_docs.json written
ProcNoDocsAfterWrite ==
    /\ p_pc = "exists"
    /\ p_present
    /\ p_dir[f_docs_md] = "none"
    /\ p_dir' = [p_dir EXCEPT ![f_cached_docs_json] = "file"]
    /\ p_result' = [p_result EXCEPT ![p_run] = "no_docs"]
    /\ p_pc' = "returned"
    /\ UNCHANGED <<p_present, p_run, p_todo, p_fail, p_before, p_after,
                   p_build, p_graph, cacheVars>>
    /\ UNCHANGED notRepo

\* lines 33-36: no docs.md, return {"ok": False, "reason": "no_docs"}
ProcNoDocs ==
    /\ p_pc = "exists"
    /\ p_present
    /\ p_dir[f_docs_md] = "none"
    /\ p_result' = [p_result EXCEPT ![p_run] = "no_docs"]
    /\ p_pc' = "returned"
    /\ UNCHANGED <<p_present, p_dir, p_run, p_todo, p_fail, p_before, p_after,
                   p_build, p_graph, cacheVars>>
    /\ UNCHANGED notRepo

\* lines 33-38: docs.md exists and is read
ProcReadDocs ==
    /\ p_pc = "exists"
    /\ p_present
    /\ p_dir[f_docs_md] # "none"
    /\ p_pc' = "cached"
    /\ UNCHANGED <<p_present, p_dir, p_run, p_todo, p_fail, p_result, p_before,
                   p_after, p_build, p_graph, cacheVars>>
    /\ UNCHANGED notRepo

\* lines 41-47: cached_docs.json is written
ProcWriteCached ==
    /\ p_pc = "cached"
    /\ p_present
    /\ p_dir' = [p_dir EXCEPT ![f_cached_docs_json] = "file"]
    /\ p_pc' = "build"
    /\ UNCHANGED <<p_present, p_run, p_todo, p_fail, p_result, p_before, p_after,
                   p_build, p_graph, cacheVars>>
    /\ UNCHANGED notRepo

\* line 47 or line 60 raises (the directory is gone, or the write or the
\* listing fails): neither is inside a try, process_repo raises
ProcRaise ==
    /\ p_pc \in {"cached", "list"}
    /\ p_result' = [p_result EXCEPT ![p_run] =
                        IF p_pc = "cached" THEN "raised_write" ELSE "raised_iterdir"]
    /\ p_pc' = "returned"
    /\ UNCHANGED <<p_present, p_dir, p_run, p_todo, p_fail, p_before, p_after,
                   p_build, p_graph, cacheVars>>
    /\ UNCHANGED notRepo

\* lines 51-54: the graph is built and ccg.json is written
ProcBuildOk ==
    /\ p_pc = "build"
    /\ p_present
    /\ \E ccg \in {build_ccg_from_repo(RepoTree(p_dir, Len(ListingOrder)))} :
        p_graph' = [p_graph EXCEPT ![p_run] = ccg]
    /\ p_build' = [p_build EXCEPT ![p_run] = "ok"]
    /\ p_dir' = [p_dir EXCEPT ![f_ccg_json] = "file"]
    /\ p_pc' = "list"
    /\ UNCHANGED <<p_present, p_run, p_todo, p_fail, p_result, p_before, p_after,
                   cacheVars>>
    /\ UNCHANGED notRepo

\* lines 51-57 without the except: the exception leaves process_repo
ProcBuildRaises ==
    /\ p_pc = "build"
    /\ \E leftover \in BOOLEAN :
        p_dir' = IF leftover /\ p_present
                 THEN [p_dir EXCEPT ![f_ccg_tmp] = "file"]
                 ELSE p_dir
    /\ p_build' = [p_build EXCEPT ![p_run] = "failed"]
    /\ p_result' = [p_result EXCEPT ![p_run] = "raised_build"]
    /\ p_pc' = "returned"
    /\ UNCHANGED <<p_present, p_run, p_todo, p_fail, p_before, p_after, p_graph,
                   cacheVars>>
    /\ UNCHANGED notRepo

\* lines 51-57: the build or the write raises, with or without the
\* temporary file left behind; the exception is caught
ProcBuildFails ==
    /\ p_pc = "build"
    /\ \E leftover \in BOOLEAN :
        p_dir' = IF leftover /\ p_present
                 THEN [p_dir EXCEPT ![f_ccg_tmp] = "file"]
                 ELSE p_dir
    /\ p_build' = [p_build EXCEPT ![p_run] = "failed"]
    /\ p_pc' = "list"
    /\ UNCHANGED <<p_present, p_run, p_todo, p_fail, p_result, p_before, p_after,
                   p_graph, cacheVars>>
    /\ UNCHANGED notRepo

\* line 60: repo_path.iterdir() lists the directory
CleanupList ==
    /\ p_pc = "list"
    /\ p_present
    /\ p_todo' = Names(p_dir)
    /\ p_before' = [p_before EXCEPT ![p_run] = Names(p_dir)]
    /\ p_pc' = "loop"
    /\ UNCHANGED <<p_present, p_dir, p_run, p_fail, p_result, p_after, p_build,
                   p_graph, cacheVars>>
    /\ UNCHANGED notRepo

\* lines 61-62: the entry is allow-listed
CleanupKeep(name) ==
    /\ p_pc = "loop"
    /\ name \in p_todo
    /\ Kept(name)
    /\ p_todo' = p_todo \ {name}
    /\ UNCHANGED <<p_present, p_dir, p_pc, p_run, p_fail, p_result, p_before,
                   p_after, p_build, p_graph, cacheVars>>
    /\ UNCHANGED notRepo

\* lines 63-68: shutil.rmtree of a directory, unlink of a file
CleanupRemove(name) ==
    /\ p_pc = "loop"
    /\ name \in p_todo
    /\ ~Kept(name)
    /\ p_present /\ p_dir[name] # "none"
    /\ p_dir' = [p_dir EXCEPT ![name] = "none"]
    /\ p_todo' = p_todo \ {name}
    /\ UNCHANGED <<p_present, p_pc, p_run, p_fail, p_result, p_before, p_after,
                   p_build, p_graph, cacheVars>>
    /\ UNCHANGED notRepo

\* lines 69-70 with the try around the loop: a deletion that raises ends
\* the cleanup
CleanupFailAborts(name) ==
    /\ p_pc = "loop"
    /\ name \in p_todo
    /\ ~Kept(name)
    /\ p_fail' = [p_fail EXCEPT ![p_run] = @ \cup {name}]
    /\ p_todo' = {}
    /\ UNCHANGED <<p_present, p_dir, p_pc, p_run, p_result, p_before, p_after,
                   p_build, p_graph, cacheVars>>
    /\ UNCHANGED notRepo

\* lines 69-70: the deletion raises, the entry is skipped
CleanupFail(name) ==
    /\ p_pc = "loop"
    /\ name \in p_todo
    /\ ~Kept(name)
    /\ p_fail' = [p_fail EXCEPT ![p_run] = @ \cup {name}]
    /\ p_todo' = p_todo \ {name}
    /\ UNCHANGED <<p_present, p_dir, p_pc, p_run, p_result, p_before, p_after,
                   p_build, p_graph, cacheVars>>
    /\ UNCHANGED notRepo

\* lines 72-73: return {"ok": True}
ProcReturn ==
    /\ p_pc = "loop"
    /\ p_todo = {}
    /\ p_result' = [p_result EXCEPT ![p_run] = "ok"]
    /\ p_after' = [p_after EXCEPT ![p_run] = IF p_present THEN Names(p_dir) ELSE {}]
    /\ p_pc' = "returned"
    /\ UNCHANGED <<p_present, p_dir, p_run, p_todo, p_fail, p_before, p_build,
                   p_graph, cacheVars>>
    /\ UNCHANGED notRepo

ProcNext ==
    \/ ProcStart
    \/ ProcNoRepo
    \/ ProcNoDocs
    \/ ProcReadDocs
    \/ ProcWriteCached
    \/ ProcRaise
    \/ ProcBuildOk
    \/ ProcBuildFails
    \/ CleanupList
    \/ \E name \in EntryNames : CleanupKeep(name)
    \/ \E name \in EntryNames : CleanupRemove(name)
    \/ \E name \in EntryNames : CleanupFail(name)
    \/ ProcReturn

-----------------------------------------------------------------------------
(* Properties of the cleanup                                               *)

\* run k of process_repo went through its cleanup with no deletion failure
CleanRun(k) == p_result[k] = "ok" /\ p_fail[k] = {}

\* C8: after a cleanup with no deletion failure the directory holds only
\* entries named docs.md, ccg.json or cached_docs.json; and when the next
\* cleanup, again with no deletion failure, runs on the directory as the
\* first one left it, it retains the same set of entries.
C8_CleanupIdempotent ==
    /\ \A k \in 1..Runs :
        CleanRun(k) => p_after[k] \subseteq ALLOWED_FILES
    /\ \A k \in 1..(Runs - 1) :
        (CleanRun(k) /\ CleanRun(k + 1) /\ p_before[k + 1] = p_after[k]) =>
            p_after[k + 1] = p_after[k]

\* two cleanups in a row, the first of which removed a directory and a
\* file and kept the three allow-listed files
C8_Witness ==
    /\ CleanRun(1) /\ CleanRun(2)
    /\ p_before[2] = p_after[1]
    /\ {f_src, f_readme} \subseteq p_before[1]
    /\ p_after[2] = ALLOWED_FILES

\* C12: when the graph build step of a call raises, process_repo does not
\* raise for it: the call goes on to the cleanup, which visits every entry
\* of the listing (each is kept as allow-listed, removed, or skipped as a
\* failed deletion), cached_docs.json stays in the directory, and the call
\* returns its success result. (The one other way out is line 60 itself
\* raising.)
C12_BuildErrorIsCaught ==
    \A k \in 1..Runs :
        p_build[k] = "failed" =>
            /\ p_result[k] \in {"none", "ok", "raised_iterdir"}
            /\ p_result[k] = "none" => p_run = k /\ p_pc \in {"list", "loop"}
            /\ p_run = k => p_present /\ p_dir[f_cached_docs_json] = "file"
            /\ p_result[k] = "ok" =>
                /\ f_cached_docs_json \in p_before[k] \cap p_after[k]
                /\ p_after[k] = (p_before[k] \cap ALLOWED_FILES) \cup p_fail[k]

\* a call whose build raised and left its temporary file behind returned
\* ok after removing the temporary file and the sources
C12_Witness ==
    \E k \in 1..Runs :
        /\ p_build[k] = "failed"
        /\ p_result[k] = "ok"
        /\ {f_ccg_tmp, f_src} \subseteq p_before[k] \ p_after[k]
        /\ f_cached_docs_json \in p_after[k]

\* C13: a deletion that fails is skipped and the loop goes on: when
\* process_repo has returned, the directory holds the allow-listed entries
\* of the listing and the entries whose deletion failed, and nothing else,
\* so every other entry was deleted, in whatever order the listing came;
\* and no step of process_repo removes an allow-listed entry.
C13_CleanupSkipsFailures ==
    /\ [](\A k \in 1..Runs :
            /\ p_fail[k] \cap ALLOWED_FILES = {}
            /\ p_result[k] = "ok" =>
                    p_after[k] = (p_before[k] \cap ALLOWED_FILES) \cup p_fail[k])
    /\ [][\A name \in ALLOWED_FILES :
            p_dir[name] # "none" => p_dir'[name] # "none"]_vars

\* a cleanup in which the deletion of README.md failed and the directory
\* src and the stale temporary file were deleted all the same
C13_Witness ==
    \E k \in 1..Runs :
        /\ p_result[k] = "ok"
        /\ p_fail[k] = {f_readme}
        /\ {f_src, f_ccg_tmp} \subseteq p_before[k] \ p_after[k]
        /\ f_readme \in p_after[k]
        /\ ALLOWED_FILES \subseteq p_after[k]

\* C17 as stated: when the first call built and wrote the graph and cleaned
\* up with no failure, the graph a second call writes to ccg.json has the
\* same nodes and edges as the one the first call wrote.
C17_RerunKeepsGraph ==
    (/\ CleanRun(1) /\ p_build[1] = "ok"
     /\ p_result[2] = "ok" /\ p_build[2] = "ok")
        => /\ p_graph[2].nodes = p_graph[1].nodes
           /\ p_graph[2].edges = p_graph[1].edges

\* the first call wrote a graph with nodes and edges and removed the
\* sources; the second call scanned the three reserved names only and wrote
\* the empty graph over it
RerunWritesEmptyGraph ==
    /\ CleanRun(1) /\ p_build[1] = "ok"
    /\ p_graph[1].nodes # <<>> /\ p_graph[1].edges # <<>>
    /\ p_before[2] = ALLOWED_FILES
    /\ p_result[2] = "ok" /\ p_build[2] = "ok"
    /\ p_graph[2] = [nodes |-> <<>>, edges |-> <<>>]

\* C19: a call of process_repo on an existing directory with no docs.md
\* returns no_docs as its next step with the directory as it was when the
\* call began, and such a call has built nothing, listed nothing and
\* deleted nothing.
C19_NoDocsLeavesDirectory ==
    /\ [][/\ p_pc' = "exists" => UNCHANGED <<p_present, p_dir>>
          /\ (p_pc = "exists" /\ p_present /\ p_dir[f_docs_md] = "none") =>
                /\ p_result' = [p_result EXCEPT ![p_run] = "no_docs"]
                /\ p_pc' = "returned"
                /\ UNCHANGED <<p_present, p_dir>>]_vars
    /\ [](\A k \in 1..Runs :
            p_result[k] = "no_docs" =>
                p_build[k] = "none" /\ p_before[k] = {} /\ p_fail[k] = {})

\* a call that returned no_docs on a directory with sources and an older
\* cached_docs.json, all still there, and no ccg.json written
C19_Witness ==
    /\ p_pc = "returned" /\ p_run >= 1
    /\ p_result[p_run] = "no_docs"
    /\ p_present
    /\ Names(p_dir) = {f_src, f_readme, f_cached_docs_json}

-----------------------------------------------------------------------------
(* clear_cache and the two read endpoints, next to process_repo            *)

\* the directory as a finished build left it, as the documentation
\* workflow left it before process_repo, or no directory; one call of
\* process_repo is still to come
CacheInit ==
    /\ \E names \in {ALLOWED_FILES, {f_docs_md, f_src}, {}},
          present \in BOOLEAN :
        /\ ~present => names = {}
        /\ p_present = present
        /\ p_dir = DirOf(names)
    /\ p_run = Runs - 1
    /\ ProcIdle
    /\ ClearIdle

Response(op, code) ==
    [op |-> op, status |-> code, cleared |-> cleared]

\* the documentation workflow creates outputs/<repo_name> again, with
\* docs.md and the cloned sources: the start of the next build
Generate ==
    /\ ~p_present
    /\ ~rebuilt
    /\ rebuilt' = TRUE
    /\ p_present' = TRUE
    /\ p_dir' = DirOf({f_docs_md, f_src})
    /\ cleared' = FALSE
    /\ UNCHANGED <<procVars, c_pc, c_todo, c_count, resp>>
    /\ UNCHANGED notRepo

\* unified_api.py lines 235-241: output_dir.exists() is false, 404
ClearNotFound ==
    /\ c_pc = "idle"
    /\ c_count < MaxClears
    /\ ~p_present
    /\ c_count' = c_count + 1
    /\ resp' = Response("clear", 404)
    /\ UNCHANGED <<p_present, p_dir, procVars, c_pc, c_todo, cleared, rebuilt>>
    /\ UNCHANGED notRepo

\* unified_api.py lines 237-245: the directory exists, iterdir lists it
ClearList ==
    /\ c_pc = "idle"
    /\ c_count < MaxClears
    /\ p_present
    /\ c_count' = c_count + 1
    /\ c_todo' = Names(p_dir)
    /\ c_pc' = "loop"
    /\ UNCHANGED <<p_present, p_dir, procVars, cleared, rebuilt, resp>>
    /\ UNCHANGED notRepo

\* unified_api.py lines 246-249: rmtree of a directory, unlink of a file
ClearItem(name) ==
    /\ c_pc = "loop"
    /\ name \in c_todo
    /\ p_dir[name] # "none"
    /\ p_dir' = [p_dir EXCEPT ![name] = "none"]
    /\ c_todo' = c_todo \ {name}
    /\ UNCHANGED <<p_present, procVars, c_pc, c_count, cleared, rebuilt, resp>>
    /\ UNCHANGED notRepo

\* unified_api.py lines 259-263: a removal raises (the entry is gone, the
\* directory is not empty at rmdir, or the file system refuses), 500
ClearFail ==
    /\ c_pc = "loop"
    /\ c_pc' = "idle"
    /\ c_todo' = {}
    /\ resp' = Response("clear", 500)
    /\ UNCHANGED <<p_present, p_dir, procVars, c_count, cleared, rebuilt>>
    /\ UNCHANGED notRepo

\* unified_api.py lines 252-258: the directory is empty, rmdir removes it
ClearRmdir ==
    /\ c_pc = "loop"
    /\ c_todo = {}
    /\ Names(p_dir) = {}
    /\ p_present' = Rmdir(p_present)
    /\ cleared' = TRUE
    /\ c_pc' = "idle"
    /\ resp' = Response("clear", 200)
    /\ UNCHANGED <<p_dir, procVars, c_todo, c_count, rebuilt>>
    /\ UNCHANGED notRepo

\* unified_api.py lines 45-65: GET /ccg/graph
GetGraph ==
    /\ resp' = Response("graph", IF ArtifactExists THEN 200 ELSE 404)
    /\ UNCHANGED <<p_present, p_dir, procVars, c_pc, c_todo, c_count, cleared, rebuilt>>
    /\ UNCHANGED notRepo

\* unified_api.py lines 68-229: GET /ccg/relationships; with the artifact
\* there the function is found (200) or not (404)
QueryRelationships ==
    /\ \E found_status \in {200, 404} :
        resp' = Response("relationships", IF ArtifactExists THEN found_status ELSE 404)
    /\ UNCHANGED <<p_present, p_dir, procVars, c_pc, c_todo, c_count, cleared, rebuilt>>
    /\ UNCHANGED notRepo

CacheNext ==
    \/ Generate
    \/ ClearNotFound
    \/ ClearList
    \/ \E name \in EntryNames : ClearItem(name)
    \/ ClearFail
    \/ ClearRmdir
    \/ GetGraph
    \/ QueryRelationships
    \/ ProcNext

-----------------------------------------------------------------------------
(* Properties of clear_cache                                               *)

\* C9: a clear_cache that finds no directory answers 404 and changes
\* nothing in the file system; after a clear_cache that succeeded, and
\* until the directory is built again, the directory and all its entries
\* are gone and every clear_cache, graph and relationship request is
\* answered 404.
C9_ClearedMeansNotFound ==
    /\ [](cleared => (~p_present /\ Names(p_dir) = {} /\ ~ArtifactExists))
    /\ [](resp.cleared => resp.status = 404)
    /\ [][(c_count' # c_count /\ ~p_present) =>
              /\ resp' = Response("clear", 404)
              /\ UNCHANGED <<p_present, p_dir>>]_vars

\* after a successful clear_cache of a built directory, a request was
\* answered 404 before any new build
C9_Witness ==
    /\ cleared
    /\ resp.cleared
    /\ resp.op \in {"clear", "graph", "relationships"}
    /\ resp.status = 404
    /\ ~rebuilt

-----------------------------------------------------------------------------
(* Specifications: one per operation, the others at rest                   *)

QueryIdle ==
    /\ qpc = "idle"
    /\ nodes = <<>> /\ edges = <<>> /\ function = <<>>
    /\ direction = "both" /\ depth = MinDepth
    /\ node_ids = <<>> /\ ki = 0 /\ matches = <<>> /\ candidates = <<>>
    /\ status = 0 /\ todo = <<>> /\ result = <<>>
    /\ start_node = <<>> /\ forward = TRUE /\ d = 0
    /\ callees_map = <<>> /\ callers_map = <<>>
    /\ frontier = {} /\ pending = {} /\ next_frontier = {} /\ visited = {}
    /\ results = <<>>

BuildIdle ==
    /\ bpc = "idle"
    /\ tree = <<>> /\ found = <<>> /\ fi = 0
    /\ b_nodes = <<>> /\ b_edges = <<>> /\ seen_nodes = {} /\ offered = <<>>

WriteIdle ==
    /\ writers = {}
    /\ fs_dir = <<>> /\ inodes = <<>> /\ version = 0 /\ committed = -1
    /\ w_pc = <<>> /\ w_fd = <<>> /\ w_off = <<>> /\ w_ver = <<>> /\ w_prior = <<>>
    /\ r_pc = <<>> /\ r_ino = <<>> /\ r_buf = <<>> /\ r_status = <<>> /\ r_min = <<>>

RepoIdle ==
    /\ p_present = FALSE /\ p_dir = <<>> /\ p_run = 0
    /\ ProcIdle
    /\ ClearIdle

InitQuery == QueryInit /\ BuildIdle /\ WriteIdle /\ RepoIdle
SpecQuery == InitQuery /\ [][QueryNext]_vars

InitBuild == BuildInit /\ QueryIdle /\ WriteIdle /\ RepoIdle
SpecBuild == InitBuild /\ [][BuildNext]_vars

InitWrite == WriteInit /\ QueryIdle /\ BuildIdle /\ RepoIdle
SpecWrite == InitWrite /\ [][WriteNext]_vars

InitConcurrent == ConcurrentInit /\ QueryIdle /\ BuildIdle /\ RepoIdle
SpecConcurrent == InitConcurrent /\ [][ConcurrentNext]_vars

InitCleanup == CleanupInit /\ QueryIdle /\ BuildIdle /\ WriteIdle
SpecCleanup == InitCleanup /\ [][ProcNext]_vars

InitCache == CacheInit /\ QueryIdle /\ BuildIdle /\ WriteIdle
SpecCache == InitCache /\ [][CacheNext]_vars

====
